---- MODULE Spec2Model ----
(***************************************************************************)
(* Google Drive connector: OAuth token provider, authenticated request     *)
(* pipeline and change-feed checkpointing.                                 *)
(*                                                                         *)
(* Coroutines are modelled as callers whose program counter names the      *)
(* await they are suspended at; everything between two awaits is one step. *)
(***************************************************************************)
EXTENDS Integers, Sequences, FiniteSets, TLC

None == "None"

\* ---- bounds of the model ------------------------------------------------
MaxTicks == 1          \* the clock is observed at 0, 60, ..., MaxTicks * 60 seconds
MaxIssued == 2         \* access tokens the identity provider issues in one run
MaxFailures == 2       \* failed sync_changes calls in a row that are counted
MaxChannels == 2       \* watch channels registered before the run begins
MaxRegistered == 3     \* register_changes_watch calls that complete in one run
MaxDownloads == 2      \* download audit records created in one run
MaxBytes == 3          \* bytes one download stream delivers at most

\* ---- program constants --------------------------------------------------
ExpirySkew == 60            \* AccessToken.is_valid: timedelta(seconds=60)
DefaultExpiresIn == 3600    \* data.get("expires_in", 3600)
MaxAttempts == 5            \* stop_after_attempt(5)

Callers == {"c1", "c2"}
Providers == {"p1", "p2"}
Accounts == {"default", "other"}

\* expires_in values the token endpoint answers with: a token that is never
\* valid, one that is valid for one clock observation, and a long-lived one
ExpiresInChoices == {ExpirySkew, 2 * ExpirySkew, DefaultExpiresIn}
RefreshTokens == {"rt_settings", "rt_stored", "rt_rotated"}

VARIABLES
    now,            \* datetime.now(timezone.utc), in seconds
    settings,       \* Settings: service-account key path set?, static refresh token
    repository,     \* TRUE iff providers are built with a TokenRepository
    tokens,         \* OAuthTokenProvider._tokens, per provider and account
    lock,           \* OAuthTokenProvider._lock: the caller holding it, or None
    credentials,    \* token_credentials table, one row per account or None
    issued,         \* number of access tokens issued so far (token n is the n-th)
    pc,             \* per caller: the await it is suspended at
    op,             \* per caller: "get_token" or "request"
    provider,       \* per caller: the provider the call goes through
    account,        \* per caller: acct
    token,          \* per caller: the token get_token returned
    refresh_token,  \* per caller: get_token's local refresh_token
    upsert_args,    \* per caller: arguments of the pending upsert_credentials
    error,          \* per caller: the exception raised to the caller
    attempt,        \* per caller: tenacity's attempt number
    status_code,    \* per caller: _request's local status_code
    bearer,         \* per caller: token in req_headers["Authorization"]
    exchanged,      \* history: this get_token call posted to the token endpoint or minted
    window,         \* history: per provider and account, the token the first call of the current window returned
    disturbed,      \* history: invalidate ran for the call's account since the call began
    rejected,       \* history: per provider and account, the bearer token a 401 was received for
    after_reject,   \* history: the rejected token pending when this call began
    only503,        \* history: every attempt of this request received 503
    rejected_bearer,\* history: bearer of the previous attempt when it received 401
    invalidated,    \* history: the handling of the last response called invalidate
    error_type,     \* per caller: _request's local error_type
    observed,       \* per caller: the records observe_drive_request was called with by this call
    in_window,      \* history: the window's token, if still valid when this call returned
    started_empty,  \* history: the cache held no entry for the account when this call began
    checkpoints,    \* sync_checkpoints table, one row per (account, resource) or none
    sync_pc,        \* per sync caller: the await sync_changes is suspended at
    resource,       \* per sync caller: the resource argument
    checkpoint,     \* per sync caller: sync_changes' local checkpoint (the row it read)
    page_token,     \* per sync caller: the pageToken the fetch was sent with
    payload,        \* per sync caller: sync_changes' local payload (the page list_changes returned)
    result,         \* per sync caller: the dict sync_changes returned
    sync_error,     \* per sync caller: the exception sync_changes raised
    before,         \* history: the stored row when the call began
    interfered,     \* history: another operation wrote the call's row since it began
    start_requests, \* history: get_start_page_token calls this call made
    list_requests,  \* history: list_changes calls this call made
    failures,       \* history: failed sync_changes calls in a row by this caller, up to MaxFailures
    webhook_url,    \* settings.connector_webhook_url is configured
    channels,       \* watch_channels table: one row per channel id, or none
    registered,     \* number of channel ids register_changes_watch has generated in this run
    wpc,            \* per watch caller: the await it is suspended at
    call,           \* per watch caller: the arguments and locals of the running call
    wtable,         \* history: the watch_channels table when the call began
    upserted,       \* history: channel ids whose row upsert_channel created
    audits,         \* download_audit table, in primary-key order
    dl_pc,          \* per download: where download_file, its iterator and the consumer are
    audit_id,       \* per download: audit_record.id, 0 before the record exists
    bytes_downloaded, \* per download: audited_iterator's local bytes_downloaded
    repo_pc,        \* per database session: the await a repository or state-service call is suspended at
    repo_call,      \* per database session: the arguments and locals of that call
    catalog,        \* drive_catalog table, one entry per drive id or none
    dir_pc,         \* per database session: the await DriveDirectoryService.sync is suspended at
    dir_call        \* per database session: the locals of that sync

cfgVars == <<settings, repository>>

providerVars == <<tokens, lock, credentials, issued>>
tokenCallVars == <<op, provider, account, token, refresh_token, upsert_args, error, exchanged, after_reject, disturbed, in_window, started_empty>>
requestVars == <<attempt, status_code, bearer, only503, rejected_bearer, invalidated, error_type, observed>>
authVars == <<now, cfgVars, providerVars, pc, tokenCallVars, requestVars, window, rejected>>

syncVars == <<checkpoints, sync_pc, resource, checkpoint, page_token, payload, result, sync_error,
              before, interfered, start_requests, list_requests, failures>>

watchVars == <<webhook_url, channels, registered, wpc, call, wtable, upserted>>

downloadVars == <<audits, dl_pc, audit_id, bytes_downloaded>>

storeVars == <<repo_pc, repo_call>>

catalogVars == <<catalog, dir_pc, dir_call>>

vars == <<authVars, syncVars, watchVars, downloadVars, storeVars, catalogVars>>

\* ---- optional integers (a nullable column or attribute) -------------------

Nothing == {}
Just(x) == {x}
The(s) == CHOOSE x \in s : TRUE

\* ---- AccessToken ----------------------------------------------------------

AccessToken(tok, expires_at) == [token |-> tok, expires_at |-> expires_at]

IsValidInverted(t, clock) ==
    IF t.expires_at = Nothing THEN TRUE ELSE clock >= The(t.expires_at) - ExpirySkew

IsValidSkewTwice(t, clock) ==
    IF t.expires_at = Nothing THEN TRUE ELSE clock < The(t.expires_at) - 2 * ExpirySkew

\* AccessToken.is_valid
IsValid(t, clock) ==
    IF t.expires_at = Nothing THEN TRUE ELSE clock < The(t.expires_at) - ExpirySkew

NoError == [status_code |-> 0, kind |-> None]
Error(kind, status) == [status_code |-> status, kind |-> kind]
NoUpsert == [refresh_token |-> None, access_token |-> 0, expires_in |-> 0, is_service_account |-> FALSE]
NoEntry == [token |-> 0, expires_at |-> Nothing]

\* ---- TokenRepository ------------------------------------------------------

\* rows counts the rows of token_credentials that carry the account id
NoRow == [refresh_token |-> None, expires_at |-> Nothing, access_token |-> Nothing,
          is_service_account |-> FALSE, present |-> FALSE, rows |-> 0]

UpsertErasingRefresh(record, args, clock) ==
    [refresh_token |-> args.refresh_token,
     expires_at |-> Just(clock + args.expires_in),
     access_token |-> Just(args.access_token),
     is_service_account |-> args.is_service_account,
     present |-> TRUE,
     rows |-> IF record.present THEN record.rows ELSE record.rows + 1]

\* TokenRepository.upsert_credentials: the row after the upsert
UpsertCredentials(record, args, clock) ==
    [refresh_token |-> IF record.present /\ args.refresh_token = None
                       THEN record.refresh_token
                       ELSE args.refresh_token,
     expires_at |-> Just(clock + args.expires_in),
     access_token |-> Just(args.access_token),
     is_service_account |-> args.is_service_account,
     present |-> TRUE,
     rows |-> IF record.present THEN record.rows ELSE record.rows + 1]

\* TokenRepository.get_credentials
GetCredentials(table, account_id) == table[account_id]

StoreRefreshTokenClearingAccess(record, refresh) ==
    [refresh_token |-> refresh,
     expires_at |-> Nothing,
     access_token |-> Nothing,
     is_service_account |-> FALSE,
     present |-> TRUE,
     rows |-> IF record.present THEN record.rows ELSE record.rows + 1]

\* TokenRepository.store_refresh_token: the row after the commit
StoreRefreshToken(record, refresh) ==
    [refresh_token |-> refresh,
     expires_at |-> record.expires_at,
     access_token |-> record.access_token,
     is_service_account |-> record.is_service_account,
     present |-> TRUE,
     rows |-> IF record.present THEN record.rows ELSE record.rows + 1]

\* ---- OAuthTokenProvider ---------------------------------------------------

LockFreeAlways(p) == TRUE

\* async with self._lock: the lock can be taken
LockFree(p) == lock[p] = None

Cached(p, a) == tokens[p][a]

InvalidateNothing(tk, p, a) == tk

InvalidateEveryAccount(tk, p, a) == [tk EXCEPT ![p] = [b \in Accounts |-> NoEntry]]

\* OAuthTokenProvider.invalidate: the cache after the call
Invalidate(tk, p, a) == [tk EXCEPT ![p][a] = NoEntry]

\* the (p, a) window as claimed: the token is more than 60 s before its expiry
StillValid(w, clock) == w.token # 0 /\ (w.expires_at = Nothing \/ clock + 60 < The(w.expires_at))

\* callers whose call for (p, a) has begun and whose result is not yet consumed
InCall(p, a) ==
    {d \in Callers : pc[d] # "idle" /\ provider[d] = p /\ account[d] = a}

\* get_token returns entry t to caller c (the lock is released by the caller of this)
Returns(c, t) ==
    LET p == provider[c]
        a == account[c]
        w == window[p][a]
    IN  /\ pc' = [pc EXCEPT ![c] = "gt_ret"]
        /\ token' = [token EXCEPT ![c] = t]
        /\ in_window' = [in_window EXCEPT ![c] = IF StillValid(w, now) THEN w.token ELSE 0]
        /\ window' = IF ~StillValid(w, now) /\ ~disturbed[c]
                     THEN [window EXCEPT ![p][a] = t]
                     ELSE window

\* get_token raises e to caller c
Raises(c, e) ==
    /\ pc' = [pc EXCEPT ![c] = "gt_raise"]
    /\ error' = [error EXCEPT ![c] = e]
    /\ UNCHANGED <<token, in_window, window>>

\* a call begins
Begin(c, o, p, a) ==
    /\ pc[c] = "idle"
    /\ pc' = [pc EXCEPT ![c] = "gt_wait"]
    /\ op' = [op EXCEPT ![c] = o]
    /\ provider' = [provider EXCEPT ![c] = p]
    /\ account' = [account EXCEPT ![c] = a]
    /\ after_reject' = [after_reject EXCEPT ![c] = rejected[p][a]]
    /\ rejected' = [rejected EXCEPT ![p][a] = 0]
    /\ started_empty' = [started_empty EXCEPT ![c] = (Cached(p, a) = NoEntry)]
    /\ UNCHANGED <<syncVars, watchVars, downloadVars, storeVars, catalogVars, now, cfgVars, providerVars, token, refresh_token, upsert_args, error,
                   exchanged, disturbed, in_window, requestVars, window>>

\* a caller awaits provider.get_token(a)
GetTokenCall(c, p, a) == Begin(c, "get_token", p, a)

RefreshTokenForAlwaysFound(record) ==
    IF record.present /\ record.refresh_token # None
    THEN record.refresh_token
    ELSE "rt_settings"

\* get_token, lines 102-107: the stored refresh token, else the configured one
RefreshTokenFor(record) ==
    IF record.present /\ record.refresh_token # None
    THEN record.refresh_token
    ELSE settings.refresh_token

\* get_token, lines 72-113 up to the first await inside the lock
GetTokenAcquire(c) ==
    LET p == provider[c]
        a == account[c]
        cached == Cached(p, a)
    IN  /\ pc[c] = "gt_wait"
        /\ LockFree(p)
        /\ IF cached.token # 0 /\ IsValid(cached, now)
           THEN /\ Returns(c, cached)
                /\ UNCHANGED <<lock, refresh_token, exchanged, error>>
           ELSE IF settings.service_account
           THEN /\ pc' = [pc EXCEPT ![c] = "gt_mint"]
                /\ lock' = [lock EXCEPT ![p] = c]
                /\ exchanged' = [exchanged EXCEPT ![c] = TRUE]
                /\ UNCHANGED <<token, in_window, window, refresh_token, error>>
           ELSE IF repository
           THEN /\ pc' = [pc EXCEPT ![c] = "gt_repo"]
                /\ lock' = [lock EXCEPT ![p] = c]
                /\ UNCHANGED <<token, in_window, window, refresh_token, exchanged, error>>
           ELSE IF RefreshTokenFor(NoRow) = None
           THEN /\ Raises(c, Error("DriveAPIError", 401))
                /\ UNCHANGED <<lock, refresh_token, exchanged>>
           ELSE /\ pc' = [pc EXCEPT ![c] = "gt_post"]
                /\ lock' = [lock EXCEPT ![p] = c]
                /\ refresh_token' = [refresh_token EXCEPT ![c] = RefreshTokenFor(NoRow)]
                /\ exchanged' = [exchanged EXCEPT ![c] = TRUE]
                /\ UNCHANGED <<token, in_window, window, error>>
        /\ UNCHANGED <<syncVars, watchVars, downloadVars, storeVars, catalogVars, now, cfgVars, tokens, credentials, issued, op, provider, account,
                       upsert_args, after_reject, started_empty, disturbed, requestVars, rejected>>

\* get_token, lines 96-113: repository.get_credentials has answered
GetTokenRepoRead(c) ==
    LET p == provider[c]
        a == account[c]
        record == credentials[a]
        stored == AccessToken(The(record.access_token), record.expires_at)
        refresh == RefreshTokenFor(record)
    IN  /\ pc[c] = "gt_repo"
        /\ IF /\ record.present
              /\ record.access_token # Nothing
              /\ record.expires_at # Nothing
              /\ IsValid(stored, now)
           THEN /\ tokens' = [tokens EXCEPT ![p][a] = stored]
                /\ Returns(c, stored)
                /\ lock' = [lock EXCEPT ![p] = None]
                /\ UNCHANGED <<refresh_token, exchanged, error>>
           ELSE IF refresh = None
           THEN /\ Raises(c, Error("DriveAPIError", 401))
                /\ lock' = [lock EXCEPT ![p] = None]
                /\ UNCHANGED <<tokens, refresh_token, exchanged>>
           ELSE /\ pc' = [pc EXCEPT ![c] = "gt_post"]
                /\ refresh_token' = [refresh_token EXCEPT ![c] = refresh]
                /\ exchanged' = [exchanged EXCEPT ![c] = TRUE]
                /\ UNCHANGED <<tokens, lock, token, in_window, window, error>>
        /\ UNCHANGED <<syncVars, watchVars, downloadVars, storeVars, catalogVars, now, cfgVars, credentials, issued, op, provider, account,
                       upsert_args, after_reject, started_empty, disturbed, requestVars, rejected>>

\* the token is cached; with a repository the upsert is awaited before returning
CacheAndReturn(c, fresh, args, persist) ==
    LET p == provider[c]
        a == account[c]
    IN  /\ issued' = issued + 1
        /\ tokens' = [tokens EXCEPT ![p][a] = fresh]
        /\ IF persist
           THEN /\ pc' = [pc EXCEPT ![c] = "gt_persist"]
                /\ token' = [token EXCEPT ![c] = fresh]
                /\ upsert_args' = [upsert_args EXCEPT ![c] = args]
                /\ UNCHANGED <<lock, in_window, window>>
           ELSE /\ Returns(c, fresh)
                /\ lock' = [lock EXCEPT ![p] = None]
                /\ UNCHANGED upsert_args
        /\ UNCHANGED <<syncVars, watchVars, downloadVars, storeVars, catalogVars, now, cfgVars, credentials, op, provider, account, refresh_token,
                       error, exchanged, after_reject, started_empty, disturbed, requestVars, rejected>>

\* get_token, lines 141-169: the token endpoint answered 2xx
GetTokenPostOk(c, expires_in, rotated) ==
    /\ pc[c] = "gt_post"
    /\ issued < MaxIssued
    /\ CacheAndReturn(c, AccessToken(issued + 1, Just(now + expires_in)),
                      [refresh_token |-> IF rotated # None THEN rotated ELSE refresh_token[c],
                       access_token |-> issued + 1,
                       expires_in |-> expires_in,
                       is_service_account |-> FALSE],
                      repository)

\* what the token endpoint can answer instead of 2xx
PostFailures ==
    { Error("DriveAPIError", 400), Error("DriveAPIError", 503),   \* >= 400 with a JSON body
      Error("JSONDecodeError", 0),                                \* >= 400, body is not JSON
      Error("TransportError", 0) }                                \* the POST itself failed

\* an exception leaves get_token inside the lock
RaiseInsideLock(c, e) ==
    /\ Raises(c, e)
    /\ lock' = [lock EXCEPT ![provider[c]] = None]
    /\ UNCHANGED <<syncVars, watchVars, downloadVars, storeVars, catalogVars, now, cfgVars, tokens, credentials, issued, op, provider, account,
                   refresh_token, upsert_args, exchanged, after_reject, started_empty, disturbed,
                   requestVars, rejected>>

\* get_token, lines 124-139: the exchange fails
GetTokenPostFail(c, e) ==
    /\ pc[c] = "gt_post"
    /\ RaiseInsideLock(c, e)

Max0(x) == IF x > 0 THEN x ELSE 0

\* get_token, lines 78-91, and _obtain_service_account_token: the credentials refreshed
GetTokenMint(c, expiry) ==
    /\ pc[c] = "gt_mint"
    /\ issued < MaxIssued
    /\ CacheAndReturn(c, AccessToken(issued + 1, expiry),
                      [refresh_token |-> None,
                       access_token |-> issued + 1,
                       expires_in |-> IF expiry = Nothing THEN 0 ELSE Max0(The(expiry) - now),
                       is_service_account |-> TRUE],
                      repository /\ expiry # Nothing)

\* _refresh_service_account_credentials raises (key file, identity provider)
GetTokenMintFail(c) ==
    /\ pc[c] = "gt_mint"
    /\ RaiseInsideLock(c, Error("RefreshError", 0))

GetTokenPersistKeepingLock(c) ==
    /\ pc[c] = "gt_persist"
    /\ credentials' = [credentials EXCEPT ![account[c]] = UpsertCredentials(@, upsert_args[c], now)]
    /\ Returns(c, token[c])
    /\ UNCHANGED <<syncVars, watchVars, downloadVars, storeVars, catalogVars, now, cfgVars, tokens, lock, issued, op, provider, account,
                   refresh_token, upsert_args, error, exchanged, after_reject, started_empty, disturbed,
                   requestVars, rejected>>

\* get_token, lines 153-169 and 81-91: upsert_credentials has committed
GetTokenPersist(c) ==
    LET p == provider[c]
        a == account[c]
    IN  /\ pc[c] = "gt_persist"
        /\ credentials' = [credentials EXCEPT ![a] = UpsertCredentials(@, upsert_args[c], now)]
        /\ Returns(c, token[c])
        /\ lock' = [lock EXCEPT ![p] = None]
        /\ UNCHANGED <<syncVars, watchVars, downloadVars, storeVars, catalogVars, now, cfgVars, tokens, issued, op, provider, account, refresh_token,
                       upsert_args, error, exchanged, after_reject, started_empty, disturbed, requestVars,
                       rejected>>

\* invalidate(a) on provider p, called from outside get_token
InvalidateCall(p, a) ==
    /\ tokens' = Invalidate(tokens, p, a)
    /\ window' = [window EXCEPT ![p][a] = NoEntry]
    /\ disturbed' = [d \in Callers |-> disturbed[d] \/ d \in InCall(p, a)]
    /\ UNCHANGED <<syncVars, watchVars, downloadVars, storeVars, catalogVars, now, cfgVars, lock, credentials, issued, pc, op, provider, account, token,
                   refresh_token, upsert_args, error, exchanged, after_reject, started_empty, in_window,
                   requestVars, rejected>>

\* the caller has its result; the call's locals are gone
Finish(c) ==
    /\ \/ pc[c] = "gt_ret" /\ op[c] = "get_token"
       \/ pc[c] \in {"gt_raise", "rq_ret", "rq_raise"}
    /\ pc' = [pc EXCEPT ![c] = "idle"]
    /\ op' = [op EXCEPT ![c] = None]
    /\ provider' = [provider EXCEPT ![c] = None]
    /\ account' = [account EXCEPT ![c] = None]
    /\ token' = [token EXCEPT ![c] = NoEntry]
    /\ refresh_token' = [refresh_token EXCEPT ![c] = None]
    /\ upsert_args' = [upsert_args EXCEPT ![c] = NoUpsert]
    /\ error' = [error EXCEPT ![c] = NoError]
    /\ exchanged' = [exchanged EXCEPT ![c] = FALSE]
    /\ disturbed' = [disturbed EXCEPT ![c] = FALSE]
    /\ in_window' = [in_window EXCEPT ![c] = 0]
    /\ after_reject' = [after_reject EXCEPT ![c] = 0]
    /\ started_empty' = [started_empty EXCEPT ![c] = FALSE]
    /\ attempt' = [attempt EXCEPT ![c] = 0]
    /\ status_code' = [status_code EXCEPT ![c] = 0]
    /\ bearer' = [bearer EXCEPT ![c] = 0]
    /\ only503' = [only503 EXCEPT ![c] = FALSE]
    /\ rejected_bearer' = [rejected_bearer EXCEPT ![c] = 0]
    /\ invalidated' = [invalidated EXCEPT ![c] = FALSE]
    /\ error_type' = [error_type EXCEPT ![c] = None]
    /\ observed' = [observed EXCEPT ![c] = <<>>]
    /\ UNCHANGED <<syncVars, watchVars, downloadVars, storeVars, catalogVars, now, cfgVars, providerVars, window, rejected>>

\* time passes
Tick ==
    /\ now < MaxTicks * ExpirySkew
    /\ now' = now + ExpirySkew
    /\ UNCHANGED <<cfgVars, providerVars, pc, tokenCallVars, requestVars, window, rejected>>
    /\ UNCHANGED <<syncVars, watchVars, downloadVars, storeVars, catalogVars>>

\* ---- SyncStateService and DriveFileService.sync_changes ----------------------

Syncers == {"s1", "s2"}
Resources == {"files", "other"}

\* settings.googledrive_default_account_id, the account every service is bound to
DefaultAccount == "default"

\* page and start tokens the Drive API issues
ServerTokens == {"start-token", "cursor-2"}

\* cursors a client of drive.update_checkpoint can supply
SuppliedCursors == {None, "", "local-cursor"}

\* rows counts the rows of sync_checkpoints that carry the (account, resource)
NoCheckpoint == [present |-> FALSE, cursor |-> None, last_synced_at |-> Nothing, rows |-> 0]
NoPayload == [changes |-> <<>>, newStartPageToken |-> None, nextPageToken |-> None]
NoResult == [changes |-> <<>>, cursor |-> None, initialised |-> FALSE, has_more |-> FALSE, set |-> FALSE]

\* Python truthiness of an optional string
Truthy(x) == x # None /\ x # ""

\* SyncStateService.get_checkpoint
GetCheckpoint(r) == checkpoints[DefaultAccount][r]

UpsertedRowMerging(row, cursor, last_synced_at) ==
    [present |-> TRUE,
     cursor |-> IF cursor = None THEN row.cursor ELSE cursor,
     last_synced_at |-> last_synced_at,
     rows |-> IF row.present THEN row.rows ELSE row.rows + 1]

\* SyncStateService.upsert_checkpoint, lines 35-45: the row after the commit
UpsertedRow(row, cursor, last_synced_at) ==
    [present |-> TRUE, cursor |-> cursor, last_synced_at |-> last_synced_at,
     rows |-> IF row.present THEN row.rows ELSE row.rows + 1]

UpsertKeepingCursor(cps, r, cursor, last_synced_at) ==
    [cps EXCEPT ![DefaultAccount][r] =
        [present |-> TRUE,
         cursor |-> IF @.present /\ Truthy(@.cursor) THEN @.cursor ELSE cursor,
         last_synced_at |-> last_synced_at,
         rows |-> IF @.present THEN @.rows ELSE @.rows + 1]]

\* SyncStateService.upsert_checkpoint: the table after the commit
UpsertCheckpoint(cps, r, cursor, last_synced_at) ==
    [cps EXCEPT ![DefaultAccount][r] = UpsertedRow(@, cursor, last_synced_at)]

NeedsStartTokenOnlyIfMissing(cp) == ~cp.present

\* sync_changes, line 106: not checkpoint or not checkpoint.cursor
NeedsStartToken(cp) == ~cp.present \/ ~Truthy(cp.cursor)

NewCursorNextFirst(page, cp) ==
    IF Truthy(page.nextPageToken) THEN page.nextPageToken
    ELSE IF Truthy(page.newStartPageToken) THEN page.newStartPageToken
    ELSE cp.cursor

NewCursorWithoutFallback(page, cp) ==
    IF Truthy(page.newStartPageToken) THEN page.newStartPageToken
    ELSE page.nextPageToken

\* sync_changes, line 119
NewCursor(page, cp) ==
    IF Truthy(page.newStartPageToken) THEN page.newStartPageToken
    ELSE IF Truthy(page.nextPageToken) THEN page.nextPageToken
    ELSE cp.cursor

\* the syncers other than s that are inside a call on resource r
OthersOn(s, r) == {t \in Syncers \ {s} : sync_pc[t] # "idle" /\ resource[t] = r}

\* sync_changes is called: get_checkpoint answers and the Drive call is sent
SyncChangesCall(s, r) ==
    LET cp == GetCheckpoint(r)
    IN  /\ sync_pc[s] = "idle"
        /\ resource' = [resource EXCEPT ![s] = r]
        /\ checkpoint' = [checkpoint EXCEPT ![s] = cp]
        /\ before' = [before EXCEPT ![s] = cp]
        /\ IF NeedsStartToken(cp)
           THEN /\ sync_pc' = [sync_pc EXCEPT ![s] = "sc_start"]
                /\ start_requests' = [start_requests EXCEPT ![s] = @ + 1]
                /\ UNCHANGED <<list_requests, page_token>>
           ELSE /\ sync_pc' = [sync_pc EXCEPT ![s] = "sc_list"]
                /\ list_requests' = [list_requests EXCEPT ![s] = @ + 1]
                /\ page_token' = [page_token EXCEPT ![s] = cp.cursor]
                /\ UNCHANGED start_requests
        /\ UNCHANGED <<authVars, watchVars, downloadVars, storeVars, catalogVars, checkpoints, payload, result, sync_error, interfered, failures>>

\* sync_changes, lines 108-115: the start token arrived and is persisted
SyncStartTokenOk(s, start_token) ==
    LET r == resource[s]
    IN  /\ sync_pc[s] = "sc_start"
        /\ checkpoints' = UpsertCheckpoint(checkpoints, r, start_token, Just(now))
        /\ interfered' = [t \in Syncers |-> interfered[t] \/ t \in OthersOn(s, r)]
        /\ result' = [result EXCEPT ![s] =
               [changes |-> <<>>, cursor |-> start_token, initialised |-> TRUE,
                has_more |-> FALSE, set |-> TRUE]]
        /\ sync_pc' = [sync_pc EXCEPT ![s] = "sc_ret"]
        /\ UNCHANGED <<authVars, watchVars, downloadVars, storeVars, catalogVars, resource, checkpoint, page_token, payload, sync_error, before,
                       start_requests, list_requests, failures>>

\* what the Drive API can answer to list_changes
ChangePages ==
    [changes : {<<>>, <<"abc">>},
     newStartPageToken : {None} \cup ServerTokens,
     nextPageToken : {None} \cup ServerTokens]

\* sync_changes, lines 118-137: a page arrived and the new cursor is persisted
SyncListOk(s, page) ==
    LET r == resource[s]
        new_cursor == NewCursor(page, checkpoint[s])
    IN  /\ sync_pc[s] = "sc_list"
        /\ checkpoints' = UpsertCheckpoint(checkpoints, r, new_cursor, Just(now))
        /\ interfered' = [t \in Syncers |-> interfered[t] \/ t \in OthersOn(s, r)]
        /\ result' = [result EXCEPT ![s] =
               [changes |-> page.changes, cursor |-> new_cursor, initialised |-> FALSE,
                has_more |-> Truthy(page.nextPageToken), set |-> TRUE]]
        /\ sync_pc' = [sync_pc EXCEPT ![s] = "sc_ret"]
        /\ payload' = [payload EXCEPT ![s] = page]
        /\ UNCHANGED <<authVars, watchVars, downloadVars, storeVars, catalogVars, resource, checkpoint, page_token, sync_error, before,
                       start_requests, list_requests, failures>>

\* what a Drive call raises to sync_changes: a fatal client error, or tenacity's
\* RetryError once the attempts are used up
DriveFailures == {Error("DriveAPIError", 404), Error("RetryError", 0)}

SyncFailClearingCursor(s, e) ==
    /\ sync_pc[s] \in {"sc_start", "sc_list"}
    /\ checkpoints' = UpsertCheckpoint(checkpoints, resource[s], None, Just(now))
    /\ sync_pc' = [sync_pc EXCEPT ![s] = "sc_raise"]
    /\ sync_error' = [sync_error EXCEPT ![s] = e]
    /\ failures' = [failures EXCEPT ![s] = IF @ < MaxFailures THEN @ + 1 ELSE @]
    /\ UNCHANGED <<authVars, watchVars, downloadVars, storeVars, catalogVars, resource, checkpoint, page_token, payload, result, before, interfered,
                   start_requests, list_requests>>

\* sync_changes, lines 108 and 118: the Drive call raises and the exception
\* leaves sync_changes before any upsert
SyncFail(s, e) ==
    /\ sync_pc[s] \in {"sc_start", "sc_list"}
    /\ sync_pc' = [sync_pc EXCEPT ![s] = "sc_raise"]
    /\ sync_error' = [sync_error EXCEPT ![s] = e]
    /\ failures' = [failures EXCEPT ![s] = IF @ < MaxFailures THEN @ + 1 ELSE @]
    /\ UNCHANGED <<authVars, watchVars, downloadVars, storeVars, catalogVars, checkpoints, resource, checkpoint, page_token, payload, result, before,
                   interfered, start_requests, list_requests>>

\* the caller has the result of sync_changes
SyncFinish(s) ==
    /\ sync_pc[s] \in {"sc_ret", "sc_raise"}
    /\ sync_pc' = [sync_pc EXCEPT ![s] = "idle"]
    /\ resource' = [resource EXCEPT ![s] = None]
    /\ checkpoint' = [checkpoint EXCEPT ![s] = NoCheckpoint]
    /\ page_token' = [page_token EXCEPT ![s] = None]
    /\ payload' = [payload EXCEPT ![s] = NoPayload]
    /\ result' = [result EXCEPT ![s] = NoResult]
    /\ sync_error' = [sync_error EXCEPT ![s] = NoError]
    /\ before' = [before EXCEPT ![s] = NoCheckpoint]
    /\ interfered' = [interfered EXCEPT ![s] = FALSE]
    /\ start_requests' = [start_requests EXCEPT ![s] = 0]
    /\ list_requests' = [list_requests EXCEPT ![s] = 0]
    /\ failures' = [failures EXCEPT ![s] = IF sync_pc[s] = "sc_ret" THEN 0 ELSE @]
    /\ UNCHANGED <<authVars, watchVars, downloadVars, storeVars, catalogVars, checkpoints>>

\* handle_request, drive.update_checkpoint: update_sync_checkpoint(resource, cursor)
\* with the caller's cursor and no last_synced_at
UpdateCheckpoint(r, cursor) ==
    /\ checkpoints' = UpsertCheckpoint(checkpoints, r, cursor, Nothing)
    /\ interfered' = [t \in Syncers |->
                         interfered[t] \/ (sync_pc[t] # "idle" /\ resource[t] = r)]
    /\ UNCHANGED <<authVars, watchVars, downloadVars, storeVars, catalogVars, sync_pc, resource, checkpoint, page_token, payload, result, sync_error,
                   before, start_requests, list_requests, failures>>

\* ---- TokenRepository and SyncStateService called on separate sessions ------------

\* database sessions: get_session yields one per request, drive_context one per command
Sessions == {"db1", "db2"}

\* arguments upsert_credentials is called with
UpsertArgs ==
    {[refresh_token |-> None, access_token |-> 1, expires_in |-> DefaultExpiresIn,
      is_service_account |-> FALSE],
     [refresh_token |-> "rt_rotated", access_token |-> 2, expires_in |-> DefaultExpiresIn,
      is_service_account |-> FALSE]}

NoRepoCall == [op |-> None, error |-> NoError, record |-> NoRow, args |-> NoUpsert,
               account_id |-> None, at |-> 0, resource |-> None, cursor |-> None,
               last_synced_at |-> Nothing, checkpoint |-> NoCheckpoint, older_than |-> 0,
               deleted |-> 0]

RepoBegin(k, o, a, args) ==
    /\ repo_pc[k] = "idle"
    /\ repo_pc' = [repo_pc EXCEPT ![k] = "repo_read"]
    /\ repo_call' = [repo_call EXCEPT ![k] = [NoRepoCall EXCEPT !.op = o, !.account_id = a, !.args = args]]
    /\ UNCHANGED <<authVars, syncVars, watchVars, downloadVars, catalogVars>>

\* upsert_credentials is called and awaits get_credentials (line 30)
UpsertCredentialsCall(k, a, args) == RepoBegin(k, "upsert_credentials", a, args)

\* store_refresh_token is called and awaits get_credentials (line 64)
StoreRefreshTokenCall(k, a, refresh) ==
    RepoBegin(k, "store_refresh_token", a, [NoUpsert EXCEPT !.refresh_token = refresh])

\* get_credentials is called by itself
GetCredentialsCall(k, a) == RepoBegin(k, "get_credentials", a, NoUpsert)

\* get_credentials answers: the row is the call's record, and upsert_credentials
\* computes expires_at (line 31)
CredentialsRead(k) ==
    LET c == repo_call[k]
    IN  /\ repo_pc[k] = "repo_read"
        /\ c.op \in {"upsert_credentials", "store_refresh_token", "get_credentials"}
        /\ repo_call' = [repo_call EXCEPT ![k].record = GetCredentials(credentials, c.account_id),
                                          ![k].at = now]
        /\ repo_pc' = [repo_pc EXCEPT ![k] = IF c.op = "get_credentials" THEN "repo_ret"
                                             ELSE "repo_commit"]
        /\ UNCHANGED <<authVars, syncVars, watchVars, downloadVars, catalogVars>>

\* session.commit() of a call that read row `mine` while the table holds `stored`:
\* an UPDATE of the row read, or an INSERT that uq_token_account refuses when
\* another session inserted the account in between
CommitCredentials(k, row) ==
    LET c == repo_call[k]
        a == c.account_id
        stored == credentials[a]
    IN  IF ~c.record.present /\ stored.present
        THEN /\ repo_pc' = [repo_pc EXCEPT ![k] = "repo_raise"]
             /\ repo_call' = [repo_call EXCEPT ![k].error = Error("IntegrityError", 0)]
             /\ UNCHANGED credentials
        ELSE /\ credentials' = [credentials EXCEPT ![a] = row]
             /\ repo_pc' = [repo_pc EXCEPT ![k] = "repo_ret"]
             /\ repo_call' = [repo_call EXCEPT ![k].record = row]

UpsertCredentialsCommitUnconstrained(k) ==
    LET c == repo_call[k]
        a == c.account_id
    IN  /\ repo_pc[k] = "repo_commit"
        /\ c.op = "upsert_credentials"
        /\ credentials' = [credentials EXCEPT ![a] =
               UpsertCredentials([@ EXCEPT !.present = c.record.present], c.args, c.at)]
        /\ repo_pc' = [repo_pc EXCEPT ![k] = "repo_ret"]
        /\ UNCHANGED repo_call
        /\ UNCHANGED <<now, cfgVars, tokens, lock, issued, pc, tokenCallVars, requestVars, window, rejected,
                       syncVars, watchVars, downloadVars, catalogVars>>

\* upsert_credentials, lines 33-55: the commit
UpsertCredentialsCommit(k) ==
    LET c == repo_call[k]
    IN  /\ repo_pc[k] = "repo_commit"
        /\ c.op = "upsert_credentials"
        /\ CommitCredentials(k, UpsertCredentials(credentials[c.account_id], c.args, c.at))
        /\ UNCHANGED <<now, cfgVars, tokens, lock, issued, pc, tokenCallVars, requestVars, window, rejected,
                       syncVars, watchVars, downloadVars, catalogVars>>

\* store_refresh_token, lines 65-78: the commit
StoreRefreshTokenCommit(k) ==
    LET c == repo_call[k]
    IN  /\ repo_pc[k] = "repo_commit"
        /\ c.op = "store_refresh_token"
        /\ CommitCredentials(k, StoreRefreshToken(credentials[c.account_id], c.args.refresh_token))
        /\ UNCHANGED <<now, cfgVars, tokens, lock, issued, pc, tokenCallVars, requestVars, window, rejected,
                       syncVars, watchVars, downloadVars, catalogVars>>

\* SyncStateService(session, a).upsert_checkpoint(r, cursor, last_synced_at=...) is
\* called and awaits get_checkpoint (line 34)
UpsertCheckpointCall(k, a, r, cursor, last) ==
    /\ repo_pc[k] = "idle"
    /\ repo_pc' = [repo_pc EXCEPT ![k] = "repo_read"]
    /\ repo_call' = [repo_call EXCEPT ![k] =
           [NoRepoCall EXCEPT !.op = "upsert_checkpoint", !.account_id = a, !.resource = r,
                              !.cursor = cursor, !.last_synced_at = last]]
    /\ UNCHANGED <<authVars, syncVars, watchVars, downloadVars, catalogVars>>

\* SyncStateService(session, a).get_checkpoint(r) is called by itself
GetCheckpointCall(k, a, r) ==
    /\ repo_pc[k] = "idle"
    /\ repo_pc' = [repo_pc EXCEPT ![k] = "repo_read"]
    /\ repo_call' = [repo_call EXCEPT ![k] =
           [NoRepoCall EXCEPT !.op = "get_checkpoint", !.account_id = a, !.resource = r]]
    /\ UNCHANGED <<authVars, syncVars, watchVars, downloadVars, catalogVars>>

\* get_checkpoint answers with the row of the service's account and the resource
CheckpointRead(k) ==
    LET c == repo_call[k]
    IN  /\ repo_pc[k] = "repo_read"
        /\ c.op \in {"upsert_checkpoint", "get_checkpoint"}
        /\ repo_call' = [repo_call EXCEPT ![k].checkpoint = checkpoints[c.account_id][c.resource]]
        /\ repo_pc' = [repo_pc EXCEPT ![k] = IF c.op = "get_checkpoint" THEN "repo_ret"
                                             ELSE "repo_commit"]
        /\ UNCHANGED <<authVars, syncVars, watchVars, downloadVars, catalogVars>>

UpsertCheckpointCommitUnconstrained(k) ==
    LET c == repo_call[k]
        row == UpsertedRow([checkpoints[c.account_id][c.resource] EXCEPT !.present = c.checkpoint.present],
                           c.cursor, c.last_synced_at)
    IN  /\ repo_pc[k] = "repo_commit"
        /\ c.op = "upsert_checkpoint"
        /\ checkpoints' = [checkpoints EXCEPT ![c.account_id][c.resource] = row]
        /\ repo_pc' = [repo_pc EXCEPT ![k] = "repo_ret"]
        /\ repo_call' = [repo_call EXCEPT ![k].checkpoint = row]
        /\ UNCHANGED <<authVars, watchVars, downloadVars, catalogVars, sync_pc, resource, checkpoint,
                       page_token, payload, result, sync_error, before, interfered, start_requests,
                       list_requests, failures>>

\* upsert_checkpoint, lines 35-48: the commit, an UPDATE of the row read or an
\* INSERT that uq_checkpoint_resource refuses when another session inserted the
\* (account, resource) in between
UpsertCheckpointCommit(k) ==
    LET c == repo_call[k]
        stored == checkpoints[c.account_id][c.resource]
        row == UpsertedRow(stored, c.cursor, c.last_synced_at)
    IN  /\ repo_pc[k] = "repo_commit"
        /\ c.op = "upsert_checkpoint"
        /\ IF ~c.checkpoint.present /\ stored.present
           THEN /\ repo_pc' = [repo_pc EXCEPT ![k] = "repo_raise"]
                /\ repo_call' = [repo_call EXCEPT ![k].error = Error("IntegrityError", 0)]
                /\ UNCHANGED checkpoints
           ELSE /\ checkpoints' = [checkpoints EXCEPT ![c.account_id][c.resource] = row]
                /\ repo_pc' = [repo_pc EXCEPT ![k] = "repo_ret"]
                /\ repo_call' = [repo_call EXCEPT ![k].checkpoint = row]
        /\ UNCHANGED <<authVars, watchVars, downloadVars, catalogVars, sync_pc, resource, checkpoint,
                       page_token, payload, result, sync_error, before, interfered, start_requests,
                       list_requests, failures>>

\* the caller has the record or the exception
RepoFinish(k) ==
    /\ repo_pc[k] \in {"repo_ret", "repo_raise"}
    /\ repo_pc' = [repo_pc EXCEPT ![k] = "idle"]
    /\ repo_call' = [repo_call EXCEPT ![k] = NoRepoCall]
    /\ UNCHANGED <<authVars, syncVars, watchVars, downloadVars, catalogVars>>

\* ---- WatchService -------------------------------------------------------------

Workers == {"w1", "w2"}

\* channel ids: those registered before the run, those register_changes_watch
\* generates during it (secrets.token_hex(16), each one new), and one more id
\* that only a notification or an upsert_channel caller names; 0 is a missing id
GeneratedId(n) == MaxChannels + n
ForeignId == MaxChannels + MaxRegistered + 1
ChannelIds == 1 .. ForeignId

\* secrets.token_hex(12)
Secrets == {"secret-a", "secret-b"}

\* what X-Goog-Channel-Token can carry
PresentedTokens == {None, ""} \cup Secrets

\* expiration instants, in seconds on the model's clock
ExpirationChoices == {0, 2 * ExpirySkew, 3 * ExpirySkew}

\* renew_channels' threshold, in seconds
Thresholds == {0, ExpirySkew}

NoChannel == [present |-> FALSE, resource_id |-> None, resource_uri |-> None,
              expiration |-> Nothing, token |-> None, kind |-> None]

\* the row register_changes_watch adds
RegisteredChannel(expiration, secret) ==
    [present |-> TRUE, resource_id |-> "resource-1", resource_uri |-> "uri-api",
     expiration |-> expiration, token |-> secret, kind |-> "changes"]

\* X-Goog-Channel-Expiration: missing, sent with an empty value, not an RFC 2822
\* date, or a date
NoHeader == [form |-> "absent", at |-> 0]
EmptyHeader == [form |-> "empty", at |-> 0]
BadHeader == [form |-> "bad", at |-> 0]
DateHeader(t) == [form |-> "date", at |-> t]
ExpirationHeaders == {NoHeader, EmptyHeader, BadHeader, DateHeader(3 * ExpirySkew)}

\* the dict upsert_channel is given
NoData == [kind |-> None, id |-> 0, resourceId |-> None, resourceUri |-> None,
           expiration_header |-> NoHeader]

\* what Drive answers to start_changes_watch: expiration is in milliseconds since
\* the epoch, 0 when the answer carries none
NoResponse == [expiration |-> 0, resourceId |-> None, resourceUri |-> None]
WatchResponse(expiration_ms) ==
    [expiration |-> expiration_ms, resourceId |-> "resource-1", resourceUri |-> "uri-api"]

\* sent is history: the Drive requests the call has issued so far
NoCall == [op |-> None, channel_id |-> 0, token |-> None, data |-> NoData,
           record |-> NoChannel, channels |-> <<>>, idx |-> 0, renewed |-> <<>>,
           threshold |-> 0, now |-> 0, response |-> NoResponse, sent |-> {},
           returned |-> FALSE, result |-> <<>>, error |-> None]

\* no call is running: no table is remembered
NoTable == <<>>

\* WatchService.get_channel
GetChannel(table, channel_id) == table[channel_id]

\* WatchService.list_channels: the rows, in primary-key order
ListChannels(table) ==
    LET ids == SelectSeq([i \in 1 .. ForeignId |-> i], LAMBDA i : table[i].present)
    IN  [k \in 1 .. Len(ids) |->
            [channel_id |-> ids[k], resource_id |-> table[ids[k]].resource_id,
             expiration |-> table[ids[k]].expiration]]

EnsureValidAcceptingNoToken(record, presented) ==
    IF ~record.present THEN "Unknown channel"
    ELSE IF Truthy(record.token) /\ Truthy(presented) /\ presented # record.token
    THEN "Invalid channel token"
    ELSE "ok"

EnsureValidKnownChannel(record, presented) ==
    IF ~record.present THEN "Unknown channel" ELSE "ok"

\* WatchService.ensure_valid_channel: "ok", or the message of the PermissionError
EnsureValidChannel(record, presented) ==
    IF ~record.present THEN "Unknown channel"
    ELSE IF Truthy(record.token) /\ presented # record.token THEN "Invalid channel token"
    ELSE "ok"

UpsertChannelResettingToken(record, data) ==
    [present |-> TRUE, resource_id |-> data.resourceId, resource_uri |-> data.resourceUri,
     expiration |-> IF data.expiration_header.form = "date"
                    THEN Just(data.expiration_header.at) ELSE Nothing,
     token |-> None,
     kind |-> IF data.kind = None THEN "changes" ELSE data.kind]

UpsertChannelKeepingExpiration(record, data) ==
    LET base == IF record.present
                THEN record
                ELSE [NoChannel EXCEPT !.present = TRUE,
                                       !.kind = IF data.kind = None THEN "changes" ELSE data.kind]
    IN  [base EXCEPT !.resource_id = data.resourceId,
                     !.resource_uri = data.resourceUri,
                     !.expiration = IF data.expiration_header.form = "date"
                                    THEN Just(data.expiration_header.at)
                                    ELSE @]

\* WatchService.upsert_channel, lines 88-103: the row after the commit; line 99
\* skips a header that is missing or empty, line 101 parses any other
UpsertChannel(record, data) ==
    LET base == IF record.present
                THEN record
                ELSE [NoChannel EXCEPT !.present = TRUE,
                                       !.kind = IF data.kind = None THEN "changes" ELSE data.kind]
    IN  [base EXCEPT !.resource_id = data.resourceId,
                     !.resource_uri = data.resourceUri,
                     !.expiration = IF data.expiration_header.form \in {"absent", "empty"} THEN @
                                    ELSE IF data.expiration_header.form = "bad" THEN Nothing
                                    ELSE Just(data.expiration_header.at)]

RenewalDueStrict(expiration, at, threshold) ==
    ~(expiration = Nothing \/ The(expiration) - at >= threshold)

\* renew_channels, line 121: the channel is not skipped
RenewalDue(expiration, at, threshold) ==
    ~(expiration = Nothing \/ The(expiration) - at > threshold)

\* renew_channels' for loop: the first entry from position i on that is not skipped
RECURSIVE NextDue(_, _, _, _)
NextDue(list, i, at, threshold) ==
    IF i > Len(list) THEN i
    ELSE IF RenewalDue(list[i].expiration, at, threshold) THEN i
    ELSE NextDue(list, i + 1, at, threshold)

\* a watch call begins: the table it found is remembered
WatchBegin(w) ==
    /\ wpc[w] = "idle"
    /\ wtable' = [wtable EXCEPT ![w] = channels]

\* the call returns result to its caller
WatchReturns(w, c, value) ==
    /\ wpc' = [wpc EXCEPT ![w] = "ret"]
    /\ call' = [call EXCEPT ![w] = [c EXCEPT !.returned = TRUE, !.result = value]]

\* the call raises e to its caller
WatchRaises(w, c, e) ==
    /\ wpc' = [wpc EXCEPT ![w] = "raise"]
    /\ call' = [call EXCEPT ![w] = [c EXCEPT !.error = e]]

\* delete_watch, lines 74-75: the row is read and stop_channel is sent
DeleteWatchSend(w, c, channel_id, table) ==
    /\ wpc' = [wpc EXCEPT ![w] = "dw_stop"]
    /\ call' = [call EXCEPT ![w] = [c EXCEPT !.channel_id = channel_id,
                                             !.record = GetChannel(table, channel_id),
                                             !.sent = @ \cup {"stop_channel"}]]

\* renew_channels, lines 120-126: the loop moves on from position c.idx
RenewContinue(w, c, table) ==
    LET next == NextDue(c.channels, c.idx + 1, c.now, c.threshold)
        d == [c EXCEPT !.idx = next]
    IN  IF next > Len(c.channels)
        THEN WatchReturns(w, d, c.renewed)
        ELSE DeleteWatchSend(w, d, c.channels[next].channel_id, table)

\* register_changes_watch, lines 34-46: the configuration is checked, the id and
\* the secret are generated and get_start_page_token is sent
RegisterSend(w, c) ==
    IF webhook_url
    THEN /\ wpc' = [wpc EXCEPT ![w] = "rg_start"]
         /\ call' = [call EXCEPT ![w] = [c EXCEPT !.sent = @ \cup {"get_start_page_token"}]]
    ELSE WatchRaises(w, c, "ValueError")

RegisterCallUnchecked(w) ==
    /\ WatchBegin(w)
    /\ wpc' = [wpc EXCEPT ![w] = "rg_start"]
    /\ call' = [call EXCEPT ![w] = [NoCall EXCEPT !.op = "register",
                                                  !.sent = {"get_start_page_token"}]]
    /\ UNCHANGED <<authVars, syncVars, downloadVars, storeVars, catalogVars, webhook_url, channels, registered, upserted>>

\* register_changes_watch is called
RegisterCall(w) ==
    /\ WatchBegin(w)
    /\ RegisterSend(w, [NoCall EXCEPT !.op = "register"])
    /\ UNCHANGED <<authVars, syncVars, downloadVars, storeVars, catalogVars, webhook_url, channels, registered, upserted>>

\* register_changes_watch, lines 46-48: the start token arrived and
\* start_changes_watch is sent
RegisterStartOk(w) ==
    /\ wpc[w] = "rg_start"
    /\ wpc' = [wpc EXCEPT ![w] = "rg_watch"]
    /\ call' = [call EXCEPT ![w].sent = @ \cup {"start_changes_watch"}]
    /\ UNCHANGED <<authVars, syncVars, downloadVars, storeVars, catalogVars, webhook_url, channels, registered, wtable, upserted>>

WatchExpirationInMillis(response) ==
    IF response.expiration = 0 THEN Nothing ELSE Just(response.expiration)

\* register_changes_watch, lines 49-52: the expiration of the row, in seconds
WatchExpiration(response) ==
    IF response.expiration = 0 THEN Nothing ELSE Just(response.expiration \div 1000)

\* register_changes_watch, lines 53-61: the row that is added
NewChannel(response, secret) ==
    [present |-> TRUE, resource_id |-> response.resourceId, resource_uri |-> response.resourceUri,
     expiration |-> WatchExpiration(response), token |-> secret, kind |-> "changes"]

\* register_changes_watch, lines 48-71: Drive accepted the watch and the row is
\* committed; inside renew_channels the loop goes on (lines 125-126)
RegisterOk(w, response, secret) ==
    LET channel_id == GeneratedId(registered + 1)
        c == [call[w] EXCEPT !.response = response]
    IN  /\ wpc[w] = "rg_watch"
        /\ registered < MaxRegistered
        /\ registered' = registered + 1
        /\ channels' = [channels EXCEPT ![channel_id] = NewChannel(response, secret)]
        /\ IF c.op = "renew"
           THEN RenewContinue(w, [c EXCEPT !.renewed = Append(@, channel_id)], channels')
           ELSE WatchReturns(w, [c EXCEPT !.channel_id = channel_id, !.token = secret],
                             <<channel_id>>)
        /\ UNCHANGED <<authVars, syncVars, downloadVars, storeVars, catalogVars, webhook_url, wtable, upserted>>

RegisterFailPersisting(w, e) ==
    /\ wpc[w] \in {"rg_start", "rg_watch"}
    /\ registered < MaxRegistered
    /\ registered' = registered + 1
    /\ channels' = [channels EXCEPT ![GeneratedId(registered + 1)] =
                       NewChannel(NoResponse, "secret-b")]
    /\ WatchRaises(w, call[w], e.kind)
    /\ UNCHANGED <<authVars, syncVars, downloadVars, storeVars, catalogVars, webhook_url, wtable, upserted>>

\* get_start_page_token or start_changes_watch raises: nothing was added
RegisterFail(w, e) ==
    /\ wpc[w] \in {"rg_start", "rg_watch"}
    /\ WatchRaises(w, call[w], e.kind)
    /\ UNCHANGED <<authVars, syncVars, downloadVars, storeVars, catalogVars, webhook_url, channels, registered, wtable, upserted>>

\* delete_watch(channel_id) is called
DeleteWatchCall(w, channel_id) ==
    /\ WatchBegin(w)
    /\ DeleteWatchSend(w, [NoCall EXCEPT !.op = "delete"], channel_id, channels)
    /\ UNCHANGED <<authVars, syncVars, downloadVars, storeVars, catalogVars, webhook_url, channels, registered, upserted>>

\* delete_watch, lines 79-82: stop_channel succeeded and the row that was read is
\* deleted; inside renew_channels register_changes_watch follows (line 124)
DeleteWatchStopOk(w) ==
    LET c == call[w]
    IN  /\ wpc[w] = "dw_stop"
        /\ channels' = IF c.record.present
                       THEN [channels EXCEPT ![c.channel_id] = NoChannel]
                       ELSE channels
        /\ IF c.op # "renew"
           THEN WatchReturns(w, c, <<>>)
           ELSE RegisterSend(w, c)
        /\ UNCHANGED <<authVars, syncVars, downloadVars, storeVars, catalogVars, webhook_url, registered, wtable, upserted>>

DeleteWatchStopFailDeleting(w, e) ==
    /\ wpc[w] = "dw_stop"
    /\ channels' = [channels EXCEPT ![call[w].channel_id] = NoChannel]
    /\ WatchRaises(w, call[w], e.kind)
    /\ UNCHANGED <<authVars, syncVars, downloadVars, storeVars, catalogVars, webhook_url, registered, wtable, upserted>>

\* delete_watch, line 75: stop_channel raises and the exception leaves delete_watch
DeleteWatchStopFail(w, e) ==
    /\ wpc[w] = "dw_stop"
    /\ WatchRaises(w, call[w], e.kind)
    /\ UNCHANGED <<authVars, syncVars, downloadVars, storeVars, catalogVars, webhook_url, channels, registered, wtable, upserted>>

\* upsert_channel(data) is called
UpsertChannelCall(w, data) ==
    LET c == [NoCall EXCEPT !.op = "upsert", !.channel_id = data.id, !.data = data]
    IN  /\ WatchBegin(w)
        /\ IF data.id = 0
           THEN /\ WatchRaises(w, c, "ValueError")
                /\ UNCHANGED <<channels, upserted>>
           ELSE /\ channels' = [channels EXCEPT ![data.id] = UpsertChannel(@, data)]
                /\ upserted' = IF GetChannel(channels, data.id).present
                               THEN upserted ELSE upserted \cup {data.id}
                /\ WatchReturns(w, c, <<data.id>>)
        /\ UNCHANGED <<authVars, syncVars, downloadVars, storeVars, catalogVars, webhook_url, registered>>

\* ensure_valid_channel(channel_id, token) is called
EnsureValidChannelCall(w, channel_id, presented) ==
    LET c == [NoCall EXCEPT !.op = "ensure_valid", !.channel_id = channel_id, !.token = presented]
        outcome == EnsureValidChannel(GetChannel(channels, channel_id), presented)
    IN  /\ WatchBegin(w)
        /\ IF outcome = "ok"
           THEN WatchReturns(w, c, <<channel_id>>)
           ELSE WatchRaises(w, c, "PermissionError")
        /\ UNCHANGED <<authVars, syncVars, downloadVars, storeVars, catalogVars, webhook_url, channels, registered, upserted>>

\* googledrive_webhook, lines 26-40: a notification arrives and is validated
WebhookCall(w, channel_id, presented, resource_id, header) ==
    LET data == [kind |-> "sync", id |-> channel_id, resourceId |-> resource_id,
                 resourceUri |-> "uri-webhook", expiration_header |-> header]
        c == [NoCall EXCEPT !.op = "webhook", !.channel_id = channel_id, !.token = presented,
                            !.data = data]
    IN  /\ WatchBegin(w)
        /\ IF channel_id = 0
           THEN WatchRaises(w, c, "HTTP 400")
           ELSE IF EnsureValidChannel(GetChannel(channels, channel_id), presented) = "ok"
           THEN /\ wpc' = [wpc EXCEPT ![w] = "wh_upsert"]
                /\ call' = [call EXCEPT ![w] = c]
           ELSE WatchRaises(w, c, "HTTP 403")
        /\ UNCHANGED <<authVars, syncVars, downloadVars, storeVars, catalogVars, webhook_url, channels, registered, upserted>>

\* googledrive_webhook, lines 41-53: the notification is upserted and answered 204
WebhookUpsert(w) ==
    LET c == call[w]
    IN  /\ wpc[w] = "wh_upsert"
        /\ channels' = [channels EXCEPT ![c.channel_id] = UpsertChannel(@, c.data)]
        /\ upserted' = IF GetChannel(channels, c.channel_id).present
                       THEN upserted ELSE upserted \cup {c.channel_id}
        /\ WatchReturns(w, c, <<>>)
        /\ UNCHANGED <<authVars, syncVars, downloadVars, storeVars, catalogVars, webhook_url, registered, wtable>>

\* renew_channels(threshold) is called: lines 117-123 up to the first stop_channel
RenewChannelsCall(w, threshold) ==
    LET c == [NoCall EXCEPT !.op = "renew", !.threshold = threshold, !.now = now,
                            !.channels = ListChannels(channels)]
    IN  /\ WatchBegin(w)
        /\ RenewContinue(w, c, channels)
        /\ UNCHANGED <<authVars, syncVars, downloadVars, storeVars, catalogVars, webhook_url, channels, registered, upserted>>

\* the caller has the outcome of its watch call
WatchFinish(w) ==
    /\ wpc[w] \in {"ret", "raise"}
    /\ wpc' = [wpc EXCEPT ![w] = "idle"]
    /\ call' = [call EXCEPT ![w] = NoCall]
    /\ wtable' = [wtable EXCEPT ![w] = NoTable]
    /\ UNCHANGED <<authVars, syncVars, downloadVars, storeVars, catalogVars, webhook_url, channels, registered, upserted>>

\* ---- DriveFileService.download_file and the download audit ----------------------

Downloads == {"d1"}

\* len(chunk) of the chunks response.aiter_bytes() yields
ChunkSizes == {1, 2}

\* what the byte stream or a Drive request raises
StreamFailures == {"ReadError", "DriveAPIError"}

\* SyncStateService.record_download_start: the table after the commit
RecordDownloadStart(table) ==
    Append(table, [status |-> "started", bytes_downloaded |-> 0, error |-> None,
                   completed_at |-> Nothing, present |-> TRUE])

\* SyncStateService.record_download_complete
RecordDownloadComplete(table, id, count) ==
    [table EXCEPT ![id] = [@ EXCEPT !.status = "completed", !.bytes_downloaded = count,
                                    !.completed_at = Just(now)]]

\* SyncStateService.record_download_failure
RecordDownloadFailure(table, id, e) ==
    [table EXCEPT ![id] = [@ EXCEPT !.status = "failed", !.error = e, !.completed_at = Just(now)]]

\* prune_downloads, lines 98-102: the rows the DELETE statement matches
Prunable(table, older_than) ==
    {i \in DOMAIN table : /\ table[i].present
                          /\ table[i].completed_at # Nothing
                          /\ The(table[i].completed_at) < older_than}

\* prune_downloads: the table after the commit; a deleted row keeps its place so
\* that the ids of the other rows stay what they were
PruneDownloads(table, older_than) ==
    [i \in DOMAIN table |-> IF i \in Prunable(table, older_than)
                            THEN [table[i] EXCEPT !.present = FALSE]
                            ELSE table[i]]

\* download_file is called: get_file_metadata is sent (lines 201-211)
DownloadFileCall(d) ==
    /\ dl_pc[d] = "idle"
    /\ Len(audits) < MaxDownloads
    /\ dl_pc' = [dl_pc EXCEPT ![d] = "dl_meta"]
    /\ UNCHANGED <<authVars, syncVars, watchVars, storeVars, catalogVars, audits, audit_id, bytes_downloaded>>

\* download_file, line 212: the metadata arrived and client.download_file is sent
DownloadMetaOk(d) ==
    /\ dl_pc[d] = "dl_meta"
    /\ dl_pc' = [dl_pc EXCEPT ![d] = "dl_get"]
    /\ UNCHANGED <<authVars, syncVars, watchVars, storeVars, catalogVars, audits, audit_id, bytes_downloaded>>

\* either Drive request raises: download_file raises before any audit record
DownloadRequestFail(d) ==
    /\ dl_pc[d] \in {"dl_meta", "dl_get"}
    /\ dl_pc' = [dl_pc EXCEPT ![d] = "dl_raise"]
    /\ UNCHANGED <<authVars, syncVars, watchVars, storeVars, catalogVars, audits, audit_id, bytes_downloaded>>

\* download_file, lines 214-236: the response arrived, the audit record is
\* committed and the iterator, not yet started, is returned to the consumer
DownloadStart(d) ==
    /\ dl_pc[d] = "dl_get"
    /\ audits' = RecordDownloadStart(audits)
    /\ audit_id' = [audit_id EXCEPT ![d] = Len(audits) + 1]
    /\ dl_pc' = [dl_pc EXCEPT ![d] = "dl_iter"]
    /\ UNCHANGED <<authVars, syncVars, watchVars, storeVars, catalogVars, bytes_downloaded>>

\* audited_iterator, lines 224-226: the consumer asks for the next chunk and the
\* stream delivers one of n bytes
StreamChunk(d, n) ==
    /\ dl_pc[d] \in {"dl_iter", "dl_yield"}
    /\ bytes_downloaded[d] + n <= MaxBytes
    /\ bytes_downloaded' = [bytes_downloaded EXCEPT ![d] = @ + n]
    /\ dl_pc' = [dl_pc EXCEPT ![d] = "dl_yield"]
    /\ UNCHANGED <<authVars, syncVars, watchVars, storeVars, catalogVars, audits, audit_id>>

\* audited_iterator, lines 230-234: the stream is exhausted
StreamEnd(d) ==
    /\ dl_pc[d] \in {"dl_iter", "dl_yield"}
    /\ audits' = RecordDownloadComplete(audits, audit_id[d], bytes_downloaded[d])
    /\ dl_pc' = [dl_pc EXCEPT ![d] = "dl_done"]
    /\ UNCHANGED <<authVars, syncVars, watchVars, storeVars, catalogVars, audit_id, bytes_downloaded>>

\* audited_iterator, lines 227-229: the stream raises an Exception
StreamRaises(d, e) ==
    /\ dl_pc[d] \in {"dl_iter", "dl_yield"}
    /\ audits' = RecordDownloadFailure(audits, audit_id[d], e)
    /\ dl_pc' = [dl_pc EXCEPT ![d] = "dl_raise"]
    /\ UNCHANGED <<authVars, syncVars, watchVars, storeVars, catalogVars, audit_id, bytes_downloaded>>

\* the consumer stops before the stream is exhausted: it drops or closes the
\* iterator (GeneratorExit is thrown at the yield) or its task is cancelled
\* (CancelledError); neither is an Exception, so line 227 does not catch it, and
\* an iterator that was never started runs no code at all
ConsumerAborts(d) ==
    /\ dl_pc[d] \in {"dl_iter", "dl_yield"}
    /\ dl_pc' = [dl_pc EXCEPT ![d] = "dl_aborted"]
    /\ UNCHANGED <<authVars, syncVars, watchVars, storeVars, catalogVars, audits, audit_id, bytes_downloaded>>

\* the download is over for its caller
DownloadFinish(d) ==
    /\ dl_pc[d] \in {"dl_done", "dl_raise", "dl_aborted"}
    /\ dl_pc' = [dl_pc EXCEPT ![d] = "idle"]
    /\ audit_id' = [audit_id EXCEPT ![d] = 0]
    /\ bytes_downloaded' = [bytes_downloaded EXCEPT ![d] = 0]
    /\ UNCHANGED <<authVars, syncVars, watchVars, storeVars, catalogVars, audits>>

\* ---- DriveDirectoryService ---------------------------------------------------

\* drive ids: the synthetic My Drive entry and two shared drives
DriveIds == {"my-drive", "drive-1", "drive-2"}

NoDrive == [present |-> FALSE, rows |-> 0, is_active |-> FALSE]

NoDirCall == [remote_drives |-> <<>>, existing |-> [i \in DriveIds |-> NoDrive]]

\* what iter_drives yields over all its pages: the ids of the shared drives, one of
\* them possibly empty or listed twice
Listings == {<<>>, <<"drive-1">>, <<"drive-2">>, <<"drive-1", "drive-2">>, <<"", "drive-2">>,
             <<"drive-1", "drive-1">>}

\* sync, lines 52-62: the entries kept from a listing, in order
RECURSIVE Kept(_)
Kept(listing) ==
    IF listing = <<>> THEN <<>>
    ELSE IF Head(listing) = "" THEN Kept(Tail(listing))
    ELSE <<Head(listing)>> \o Kept(Tail(listing))

\* sync, lines 67-70: seen_ids
SeenIds(remote_drives) == {remote_drives[j] : j \in DOMAIN remote_drives}

\* sync, lines 71-85: the positions of remote_drives for which a new record is added
Added(existing, remote_drives) ==
    {j \in DOMAIN remote_drives : ~existing[remote_drives[j]].present}

\* the commit's INSERTs meet uq_drive_catalog_id: a drive id is added twice, or has
\* been inserted by another session since the catalog was read
InsertRefused(table, existing, remote_drives) ==
    \E j \in Added(existing, remote_drives) :
        \/ table[remote_drives[j]].present
        \/ \E h \in Added(existing, remote_drives) : h # j /\ remote_drives[h] = remote_drives[j]

\* sync, lines 67-92: the catalog after the commit
SyncedCatalog(table, existing, remote_drives) ==
    [i \in DriveIds |->
        IF i \in SeenIds(remote_drives)
        THEN [present |-> TRUE,
              rows |-> IF existing[i].present THEN table[i].rows ELSE table[i].rows + 1,
              is_active |-> TRUE]
        ELSE IF existing[i].present
        THEN [table[i] EXCEPT !.is_active = FALSE]
        ELSE table[i]]

\* sync is called: remote_drives starts with My Drive and iter_drives is awaited
DirectorySyncCall(k) ==
    /\ dir_pc[k] = "idle"
    /\ dir_pc' = [dir_pc EXCEPT ![k] = "ds_list"]
    /\ dir_call' = [dir_call EXCEPT ![k] = [NoDirCall EXCEPT !.remote_drives = <<"my-drive">>]]
    /\ UNCHANGED <<authVars, syncVars, watchVars, downloadVars, storeVars, catalog>>

\* sync, lines 52-64: the listing has been read to its end and the catalog is selected
DirectoryListOk(k, listing) ==
    /\ dir_pc[k] = "ds_list"
    /\ dir_pc' = [dir_pc EXCEPT ![k] = "ds_select"]
    /\ dir_call' = [dir_call EXCEPT ![k].remote_drives = @ \o Kept(listing)]
    /\ UNCHANGED <<authVars, syncVars, watchVars, downloadVars, storeVars, catalog>>

\* a list_drives request raises and the exception leaves sync
DirectoryListFail(k) ==
    /\ dir_pc[k] = "ds_list"
    /\ dir_pc' = [dir_pc EXCEPT ![k] = "ds_raise"]
    /\ UNCHANGED <<authVars, syncVars, watchVars, downloadVars, storeVars, catalog, dir_call>>

\* sync, lines 64-65: the select answers with the catalog as it is now
DirectorySelect(k) ==
    /\ dir_pc[k] = "ds_select"
    /\ dir_pc' = [dir_pc EXCEPT ![k] = "ds_commit"]
    /\ dir_call' = [dir_call EXCEPT ![k].existing = catalog]
    /\ UNCHANGED <<authVars, syncVars, watchVars, downloadVars, storeVars, catalog>>

\* sync, lines 67-95: the records are updated and added, and the commit succeeds or
\* is refused
DirectoryCommit(k) ==
    LET c == dir_call[k]
    IN  /\ dir_pc[k] = "ds_commit"
        /\ IF InsertRefused(catalog, c.existing, c.remote_drives)
           THEN /\ dir_pc' = [dir_pc EXCEPT ![k] = "ds_raise"]
                /\ UNCHANGED catalog
           ELSE /\ dir_pc' = [dir_pc EXCEPT ![k] = "ds_ret"]
                /\ catalog' = SyncedCatalog(catalog, c.existing, c.remote_drives)
        /\ UNCHANGED <<authVars, syncVars, watchVars, downloadVars, storeVars, dir_call>>

\* the caller has the outcome of sync
DirectoryFinish(k) ==
    /\ dir_pc[k] \in {"ds_ret", "ds_raise"}
    /\ dir_pc' = [dir_pc EXCEPT ![k] = "idle"]
    /\ dir_call' = [dir_call EXCEPT ![k] = NoDirCall]
    /\ UNCHANGED <<authVars, syncVars, watchVars, downloadVars, storeVars, catalog>>

\* prune_downloads(older_than) is called on session k and awaits the DELETE
PruneDownloadsCall(k, older_than) ==
    /\ repo_pc[k] = "idle"
    /\ repo_pc' = [repo_pc EXCEPT ![k] = "repo_delete"]
    /\ repo_call' = [repo_call EXCEPT ![k] =
           [NoRepoCall EXCEPT !.op = "prune_downloads", !.older_than = older_than]]
    /\ UNCHANGED <<authVars, syncVars, watchVars, downloadVars, catalogVars>>

\* prune_downloads, lines 103-107: the DELETE ran and is committed; rowcount is returned
PruneDownloadsCommit(k) ==
    LET older_than == repo_call[k].older_than
    IN  /\ repo_pc[k] = "repo_delete"
        /\ audits' = PruneDownloads(audits, older_than)
        /\ repo_call' = [repo_call EXCEPT ![k].deleted = Cardinality(Prunable(audits, older_than))]
        /\ repo_pc' = [repo_pc EXCEPT ![k] = "repo_ret"]
        /\ UNCHANGED <<authVars, syncVars, watchVars, catalogVars, dl_pc, audit_id, bytes_downloaded>>

\* ---- initial state ---------------------------------------------------------

\* a row written by store_refresh_token (the OAuth bootstrap)
BootstrapRow == StoreRefreshToken(NoRow, "rt_stored")

InitAuth ==
    /\ now = 0
    /\ settings \in [service_account : BOOLEAN, refresh_token : {None, "rt_settings"}]
    /\ repository \in BOOLEAN
    /\ tokens = [p \in Providers |-> [a \in Accounts |-> NoEntry]]
    /\ lock = [p \in Providers |-> None]
    /\ credentials \in {[a \in Accounts |-> NoRow], [a \in Accounts |-> BootstrapRow]}
    /\ issued = 0
    /\ pc = [c \in Callers |-> "idle"]
    /\ op = [c \in Callers |-> None]
    /\ provider = [c \in Callers |-> None]
    /\ account = [c \in Callers |-> None]
    /\ token = [c \in Callers |-> NoEntry]
    /\ refresh_token = [c \in Callers |-> None]
    /\ upsert_args = [c \in Callers |-> NoUpsert]
    /\ error = [c \in Callers |-> NoError]
    /\ attempt = [c \in Callers |-> 0]
    /\ status_code = [c \in Callers |-> 0]
    /\ bearer = [c \in Callers |-> 0]
    /\ exchanged = [c \in Callers |-> FALSE]
    /\ window = [p \in Providers |-> [a \in Accounts |-> NoEntry]]
    /\ disturbed = [c \in Callers |-> FALSE]
    /\ rejected = [p \in Providers |-> [a \in Accounts |-> 0]]
    /\ after_reject = [c \in Callers |-> 0]
    /\ only503 = [c \in Callers |-> FALSE]
    /\ rejected_bearer = [c \in Callers |-> 0]
    /\ invalidated = [c \in Callers |-> FALSE]
    /\ error_type = [c \in Callers |-> None]
    /\ observed = [c \in Callers |-> <<>>]
    /\ in_window = [c \in Callers |-> 0]
    /\ started_empty = [c \in Callers |-> FALSE]

InitSync ==
    /\ checkpoints = [a \in Accounts |-> [r \in Resources |-> NoCheckpoint]]
    /\ sync_pc = [s \in Syncers |-> "idle"]
    /\ resource = [s \in Syncers |-> None]
    /\ checkpoint = [s \in Syncers |-> NoCheckpoint]
    /\ page_token = [s \in Syncers |-> None]
    /\ payload = [s \in Syncers |-> NoPayload]
    /\ result = [s \in Syncers |-> NoResult]
    /\ sync_error = [s \in Syncers |-> NoError]
    /\ before = [s \in Syncers |-> NoCheckpoint]
    /\ interfered = [s \in Syncers |-> FALSE]
    /\ start_requests = [s \in Syncers |-> 0]
    /\ list_requests = [s \in Syncers |-> 0]
    /\ failures = [s \in Syncers |-> 0]

\* no watch channel, no watch call
InitWatch ==
    /\ webhook_url = TRUE
    /\ channels = [i \in ChannelIds |-> NoChannel]
    /\ registered = 0
    /\ wpc = [w \in Workers |-> "idle"]
    /\ call = [w \in Workers |-> NoCall]
    /\ wtable = [w \in Workers |-> NoTable]
    /\ upserted = {}

\* no download has run
InitDownload ==
    /\ audits = <<>>
    /\ dl_pc = [d \in Downloads |-> "idle"]
    /\ audit_id = [d \in Downloads |-> 0]
    /\ bytes_downloaded = [d \in Downloads |-> 0]

\* no repository call is running
InitStore ==
    /\ repo_pc = [k \in Sessions |-> "idle"]
    /\ repo_call = [k \in Sessions |-> NoRepoCall]

\* the catalog is empty and no sync is running
InitCatalog ==
    /\ catalog = [i \in DriveIds |-> NoDrive]
    /\ dir_pc = [k \in Sessions |-> "idle"]
    /\ dir_call = [k \in Sessions |-> NoDirCall]

Init == InitAuth /\ InitSync /\ InitWatch /\ InitDownload /\ InitStore /\ InitCatalog

\* ---- GoogleDriveClient._request ---------------------------------------------

\* what one HTTP attempt can come back with: a status (the body of a 4xx other
\* than 401 and 429 may or may not be JSON), or a transport failure
Response(status, json) == [kind |-> "http", status |-> status, json |-> json]
TransportFailure == [kind |-> "transport", status |-> 0, json |-> FALSE]
Responses ==
    {Response(s, TRUE) : s \in {200, 401, 404, 429, 503}}
        \cup {Response(404, FALSE), TransportFailure}

ClassifyAllRetriable(r) ==
    IF r.kind = "transport" THEN "transport"
    ELSE IF r.status = 401 THEN "unauthorized"
    ELSE IF r.status >= 400 THEN "retryable"
    ELSE "ok"

\* _request, lines 268-290: the branch an attempt's outcome takes
Classify(r) ==
    IF r.kind = "transport" THEN "transport"
    ELSE IF r.status = 401 THEN "unauthorized"
    ELSE IF r.status = 429 \/ r.status >= 500 THEN "retryable"
    ELSE IF r.status >= 400 THEN "client_error"
    ELSE "ok"

StopAfterOneMore(n) == n >= MaxAttempts + 1

\* stop_after_attempt(5)
StopAfterAttempt(n) == n >= MaxAttempts

\* retry_if_exception_type((httpx.TransportError, DriveRetriableError))
Retried(class) == class \in {"transport", "unauthorized", "retryable"}

\* a caller awaits client._request(...): line 235 calls get_token first
RequestCall(c, p, a) == Begin(c, "request", p, a)

\* _request, lines 235-257: get_token returned, the headers are built once and
\* the first attempt is sent
RequestSend(c) ==
    /\ pc[c] = "gt_ret"
    /\ op[c] = "request"
    /\ pc' = [pc EXCEPT ![c] = "rq_send"]
    /\ bearer' = [bearer EXCEPT ![c] = token[c].token]
    /\ attempt' = [attempt EXCEPT ![c] = 1]
    /\ status_code' = [status_code EXCEPT ![c] = 500]
    /\ only503' = [only503 EXCEPT ![c] = TRUE]
    /\ error_type' = [error_type EXCEPT ![c] = None]
    /\ UNCHANGED <<syncVars, watchVars, downloadVars, storeVars, catalogVars, now, cfgVars, providerVars, tokenCallVars, rejected_bearer, invalidated,
                   observed, window, rejected>>

\* the arguments of one observe_drive_request call
Observation(status, kind) == [status_code |-> status, error_type |-> kind]

\* _request, lines 257-297, and tenacity's decision after the attempt; the finally
\* block runs when the call is left
RequestResponse(c, r) ==
    LET p == provider[c]
        a == account[c]
        class == Classify(r)
        leaves == ~Retried(class) \/ StopAfterAttempt(attempt[c])
        status == IF r.kind = "http" THEN r.status ELSE status_code[c]
        kind == IF class \in {"unauthorized", "retryable", "client_error"}
                THEN class ELSE error_type[c]
    IN  /\ pc[c] = "rq_send"
        /\ error_type' = [error_type EXCEPT ![c] = kind]
        /\ observed' = [observed EXCEPT ![c] =
                           IF leaves THEN Append(@, Observation(status, kind)) ELSE @]
        /\ status_code' = [status_code EXCEPT ![c] = status]
        /\ only503' = [only503 EXCEPT ![c] = @ /\ r.kind = "http" /\ r.status = 503]
        /\ invalidated' = [invalidated EXCEPT ![c] = (class = "unauthorized")]
        /\ rejected_bearer' = [rejected_bearer EXCEPT ![c] =
                                  IF class = "unauthorized" THEN bearer[c] ELSE 0]
        /\ IF class = "unauthorized"
           THEN /\ tokens' = Invalidate(tokens, p, a)
                /\ window' = [window EXCEPT ![p][a] = NoEntry]
                /\ disturbed' = [d \in Callers |-> disturbed[d] \/ d \in InCall(p, a)]
                /\ rejected' = [rejected EXCEPT ![p][a] = bearer[c]]
           ELSE UNCHANGED <<tokens, window, disturbed, rejected>>
        /\ IF Retried(class)
           THEN IF StopAfterAttempt(attempt[c])
                THEN /\ pc' = [pc EXCEPT ![c] = "rq_raise"]
                     /\ error' = [error EXCEPT ![c] = Error("RetryError", 0)]
                ELSE /\ pc' = [pc EXCEPT ![c] = "rq_sleep"]
                     /\ UNCHANGED error
           ELSE IF class = "client_error"
           THEN /\ pc' = [pc EXCEPT ![c] = "rq_raise"]
                /\ error' = [error EXCEPT ![c] =
                                IF r.json THEN Error("DriveAPIError", r.status)
                                          ELSE Error("JSONDecodeError", 0)]
           ELSE /\ pc' = [pc EXCEPT ![c] = "rq_ret"]
                /\ UNCHANGED error
        /\ UNCHANGED <<syncVars, watchVars, downloadVars, storeVars, catalogVars, now, cfgVars, lock, credentials, issued, op, provider, account, token,
                       refresh_token, upsert_args, exchanged, after_reject, started_empty, in_window,
                       attempt, bearer>>

\* the backoff wait is over: tenacity starts the next attempt with the same headers
RequestRetry(c) ==
    /\ pc[c] = "rq_sleep"
    /\ pc' = [pc EXCEPT ![c] = "rq_send"]
    /\ attempt' = [attempt EXCEPT ![c] = @ + 1]
    /\ UNCHANGED <<syncVars, watchVars, downloadVars, storeVars, catalogVars, now, cfgVars, providerVars, tokenCallVars, status_code, bearer, only503,
                   rejected_bearer, invalidated, error_type, observed, window, rejected>>

\* ---- the token provider under concurrent get_token and invalidate calls ------

Next ==
    \/ \E c \in Callers : GetTokenCall(c, "p1", "default")
    \/ \E c \in Callers : GetTokenAcquire(c)
    \/ \E c \in Callers : GetTokenRepoRead(c)
    \/ \E c \in Callers, e \in ExpiresInChoices, r \in {None, "rt_rotated"} : GetTokenPostOk(c, e, r)
    \/ \E c \in Callers, e \in PostFailures : GetTokenPostFail(c, e)
    \/ \E c \in Callers, e \in ExpiresInChoices : GetTokenMint(c, Just(now + e))
    \/ \E c \in Callers : GetTokenMint(c, Nothing)
    \/ \E c \in Callers : GetTokenMintFail(c)
    \/ \E c \in Callers : GetTokenPersist(c)
    \/ \E c \in Callers : Finish(c)
    \/ InvalidateCall("p1", "default")
    \/ Tick

\* the deployments that differ for the provider: a service account reads no refresh
\* token, and without a repository or with a service account no bootstrap row is read
InitProvider ==
    /\ Init
    /\ settings.service_account => settings.refresh_token = None
    /\ (settings.service_account \/ ~repository) => credentials = [a \in Accounts |-> NoRow]

Spec == InitProvider /\ [][Next]_vars

\* ---- one provider serving two accounts, with invalidate calls for either -------

InitAccounts ==
    /\ Init
    /\ repository
    /\ ~settings.service_account

NextAccounts ==
    \/ \E a \in Accounts : GetTokenCall("c1", "p1", a)
    \/ GetTokenAcquire("c1")
    \/ GetTokenRepoRead("c1")
    \/ \E e \in {2 * ExpirySkew, DefaultExpiresIn}, r \in {None, "rt_rotated"} :
          GetTokenPostOk("c1", e, r)
    \/ GetTokenPostFail("c1", Error("DriveAPIError", 400))
    \/ GetTokenPersist("c1")
    \/ Finish("c1")
    \/ \E a \in Accounts : InvalidateCall("p1", a)
    \/ Tick

SpecAccounts == InitAccounts /\ [][NextAccounts]_vars

\* ---- two requests served at once, each wired by get_drive_client ------------

\* get_drive_client builds a TokenRepository and a new OAuthTokenProvider per request
WiredProvider(c) == IF c = "c1" THEN "p1" ELSE "p2"

InitWired ==
    /\ Init
    /\ repository
    /\ ~settings.service_account

NextWired ==
    \/ \E c \in Callers : GetTokenCall(c, WiredProvider(c), "default")
    \/ \E c \in Callers : GetTokenAcquire(c)
    \/ \E c \in Callers : GetTokenRepoRead(c)
    \/ \E c \in Callers, e \in ExpiresInChoices, r \in {None, "rt_rotated"} : GetTokenPostOk(c, e, r)
    \/ \E c \in Callers, e \in PostFailures : GetTokenPostFail(c, e)
    \/ \E c \in Callers : GetTokenPersist(c)
    \/ \E c \in Callers : Finish(c)
    \/ Tick

SpecWired == InitWired /\ [][NextWired]_vars

\* ---- one client issuing authenticated requests one after another ------------

NextRequest ==
    \/ RequestCall("c1", "p1", "default")
    \/ GetTokenAcquire("c1")
    \/ GetTokenRepoRead("c1")
    \/ \E e \in ExpiresInChoices, r \in {None, "rt_rotated"} : GetTokenPostOk("c1", e, r)
    \/ \E e \in PostFailures : GetTokenPostFail("c1", e)
    \/ \E e \in ExpiresInChoices : GetTokenMint("c1", Just(now + e))
    \/ GetTokenMint("c1", Nothing)
    \/ GetTokenMintFail("c1")
    \/ GetTokenPersist("c1")
    \/ RequestSend("c1")
    \/ \E r \in Responses : RequestResponse("c1", r)
    \/ RequestRetry("c1")
    \/ Finish("c1")
    \/ Tick

SpecRequest == Init /\ [][NextRequest]_vars

\* ---- one client's request in flight while another caller asks the same provider
\* ---- for a token -----------------------------------------------------------------

\* the deployment get_drive_client builds: a repository, refresh-token mode
InitShared ==
    /\ Init
    /\ settings = [service_account |-> FALSE, refresh_token |-> "rt_settings"]
    /\ repository
    /\ credentials = [a \in Accounts |-> NoRow]

NextShared ==
    \/ RequestCall("c1", "p1", "default")
    \/ GetTokenCall("c2", "p1", "default")
    \/ \E c \in Callers : GetTokenAcquire(c)
    \/ \E c \in Callers : GetTokenRepoRead(c)
    \/ \E c \in Callers, e \in {2 * ExpirySkew, DefaultExpiresIn} : GetTokenPostOk(c, e, None)
    \/ \E c \in Callers : GetTokenPostFail(c, Error("DriveAPIError", 400))
    \/ \E c \in Callers : GetTokenPersist(c)
    \/ RequestSend("c1")
    \/ \E st \in {200, 401, 503} : RequestResponse("c1", Response(st, TRUE))
    \/ RequestRetry("c1")
    \/ \E c \in Callers : Finish(c)
    \/ Tick

SpecShared == InitShared /\ [][NextShared]_vars

\* ---- the credential store under repository calls on two sessions and get_token ---

InitStoreCalls ==
    /\ Init
    /\ repository
    /\ settings = [service_account |-> FALSE, refresh_token |-> "rt_settings"]

NextStore ==
    \/ \E k \in Sessions, args \in UpsertArgs : UpsertCredentialsCall(k, DefaultAccount, args)
    \/ \E args \in UpsertArgs : UpsertCredentialsCall("db2", "other", args)
    \/ \E k \in Sessions : StoreRefreshTokenCall(k, DefaultAccount, "rt_stored")
    \/ GetCredentialsCall("db1", DefaultAccount)
    \/ \E k \in Sessions : CredentialsRead(k)
    \/ \E k \in Sessions : UpsertCredentialsCommit(k)
    \/ \E k \in Sessions : StoreRefreshTokenCommit(k)
    \/ \E k \in Sessions : RepoFinish(k)
    \/ GetTokenCall("c1", "p1", "default")
    \/ GetTokenAcquire("c1")
    \/ GetTokenRepoRead("c1")
    \/ GetTokenPostOk("c1", DefaultExpiresIn, None)
    \/ GetTokenPersist("c1")
    \/ Finish("c1")

SpecStore == InitStoreCalls /\ [][NextStore]_vars

\* ---- downloads, the clock and prune_downloads ------------------------------------

NextPrune ==
    \/ DownloadFileCall("d1")
    \/ DownloadMetaOk("d1")
    \/ DownloadRequestFail("d1")
    \/ DownloadStart("d1")
    \/ \E n \in ChunkSizes : StreamChunk("d1", n)
    \/ StreamEnd("d1")
    \/ \E e \in StreamFailures : StreamRaises("d1", e)
    \/ ConsumerAborts("d1")
    \/ DownloadFinish("d1")
    \/ \E older_than \in {now - 1, now - ExpirySkew} : PruneDownloadsCall("db1", older_than)
    \/ PruneDownloadsCommit("db1")
    \/ RepoFinish("db1")
    \/ Tick

SpecPrune == InitStoreCalls /\ [][NextPrune]_vars

\* ---- one service syncing the change feed, one call at a time, while an RPC
\* ---- client may rewrite checkpoints ------------------------------------------

\* the configuration get_drive_client and drive_context run the services under
InitSyncChanges ==
    /\ Init
    /\ settings = [service_account |-> FALSE, refresh_token |-> "rt_settings"]
    /\ repository
    /\ credentials = [a \in Accounts |-> NoRow]

NextSyncChanges ==
    \/ \E r \in Resources : SyncChangesCall("s1", r)
    \/ \E t \in ServerTokens : SyncStartTokenOk("s1", t)
    \/ \E page \in ChangePages : SyncListOk("s1", page)
    \/ \E e \in DriveFailures : SyncFail("s1", e)
    \/ SyncFinish("s1")
    \/ \E r \in Resources, cursor \in SuppliedCursors : UpdateCheckpoint(r, cursor)
    \/ Tick

SpecSync == InitSyncChanges /\ [][NextSyncChanges]_vars

\* ---- sync_changes calls one after the other, nothing else writing checkpoints ------

NextSyncOnly ==
    \/ \E r \in Resources : SyncChangesCall("s1", r)
    \/ \E t \in ServerTokens : SyncStartTokenOk("s1", t)
    \/ \E page \in ChangePages : SyncListOk("s1", page)
    \/ \E e \in DriveFailures : SyncFail("s1", e)
    \/ SyncFinish("s1")
    \/ Tick

SpecSyncOnly == InitSyncChanges /\ [][NextSyncOnly]_vars

\* ---- drive catalog syncs on two sessions ---------------------------------------------

NextCatalog ==
    \/ \E k \in Sessions : DirectorySyncCall(k)
    \/ \E k \in Sessions, listing \in Listings : DirectoryListOk(k, listing)
    \/ \E k \in Sessions : DirectoryListFail(k)
    \/ \E k \in Sessions : DirectorySelect(k)
    \/ \E k \in Sessions : DirectoryCommit(k)
    \/ \E k \in Sessions : DirectoryFinish(k)

SpecCatalog == InitSyncChanges /\ [][NextCatalog]_vars

\* ---- two sync_changes calls served at once by one process --------------------------

NextTwoSyncs ==
    \/ \E s \in Syncers : SyncChangesCall(s, "files")
    \/ \E s \in Syncers, t \in ServerTokens : SyncStartTokenOk(s, t)
    \/ \E s \in Syncers, page \in ChangePages : SyncListOk(s, page)
    \/ \E s \in Syncers, e \in DriveFailures : SyncFail(s, e)
    \/ \E s \in Syncers : SyncFinish(s)

SpecTwoSyncs == InitSyncChanges /\ [][NextTwoSyncs]_vars

\* ---- the checkpoint table under state-service calls on two sessions ---------------

\* cursors upsert_checkpoint is called with
WrittenCursors == {None, "start-token", "cursor-2"}

NextCheckpoints ==
    \/ \E k \in Sessions, r \in Resources, cursor \in WrittenCursors :
          UpsertCheckpointCall(k, DefaultAccount, r, cursor, Nothing)
    \/ \E cursor \in WrittenCursors : UpsertCheckpointCall("db2", "other", "files", cursor, Nothing)
    \/ GetCheckpointCall("db1", DefaultAccount, "files")
    \/ \E k \in Sessions : CheckpointRead(k)
    \/ \E k \in Sessions : UpsertCheckpointCommit(k)
    \/ \E k \in Sessions : RepoFinish(k)

SpecCheckpoints == InitSyncChanges /\ [][NextCheckpoints]_vars

\* ---- the watch service, one caller at a time ------------------------------------

\* channels registered earlier, with whatever expiration Drive granted them
InitWatchService ==
    /\ InitAuth
    /\ InitSync
    /\ InitDownload
    /\ InitStore
    /\ InitCatalog
    /\ settings = [service_account |-> FALSE, refresh_token |-> "rt_settings"]
    /\ repository
    /\ credentials = [a \in Accounts |-> NoRow]
    /\ webhook_url \in BOOLEAN
    /\ \E before_run \in [1 .. MaxChannels ->
              {NoChannel} \cup {RegisteredChannel(e, "secret-a") :
                                   e \in {Nothing} \cup {Just(t) : t \in ExpirationChoices}}] :
          channels = [i \in ChannelIds |-> IF i <= MaxChannels THEN before_run[i] ELSE NoChannel]
    /\ registered = 0
    /\ wpc = [w \in Workers |-> "idle"]
    /\ call = [w \in Workers |-> NoCall]
    /\ wtable = [w \in Workers |-> NoTable]
    /\ upserted = {}

\* inbound notifications, upsert_channel and ensure_valid_channel callers, and
\* registrations, one call at a time
NextWebhook ==
    \/ RegisterCall("w1")
    \/ RegisterStartOk("w1")
    \/ \E ms \in {3 * ExpirySkew * 1000} : RegisterOk("w1", WatchResponse(ms), "secret-b")
    \/ \E e \in DriveFailures : RegisterFail("w1", e)
    \/ \E i \in {0, ForeignId}, k \in {None, "sync"}, h \in ExpirationHeaders :
          UpsertChannelCall("w1", [kind |-> k, id |-> i, resourceId |-> "rid",
                                   resourceUri |-> "uri-webhook", expiration_header |-> h])
    \/ \E i \in {1, GeneratedId(1), ForeignId}, t \in PresentedTokens :
          EnsureValidChannelCall("w1", i, t)
    \/ \E i \in {0, 1, GeneratedId(1), ForeignId}, t \in PresentedTokens, h \in ExpirationHeaders :
          WebhookCall("w1", i, t, "rid", h)
    \/ WebhookUpsert("w1")
    \/ WatchFinish("w1")

\* the tables a notification can meet: expirations play no part in validation, so the
\* channels registered before the run carry one of two
InitWebhook ==
    /\ InitWatchService
    /\ \A i \in ChannelIds :
          channels[i] # NoChannel => channels[i].expiration \in {Nothing, Just(3 * ExpirySkew)}

SpecWebhook == InitWebhook /\ [][NextWebhook]_vars

\* registrations, deletions and renewals, one call at a time, while time passes
NextRenew ==
    \/ RegisterCall("w1")
    \/ RegisterStartOk("w1")
    \/ \E ms \in {0, 3 * ExpirySkew * 1000} : RegisterOk("w1", WatchResponse(ms), "secret-b")
    \/ \E e \in DriveFailures : RegisterFail("w1", e)
    \/ \E i \in {1, 2, GeneratedId(1), ForeignId} : DeleteWatchCall("w1", i)
    \/ DeleteWatchStopOk("w1")
    \/ \E e \in DriveFailures : DeleteWatchStopFail("w1", e)
    \/ \E th \in Thresholds : RenewChannelsCall("w1", th)
    \/ WatchFinish("w1")
    \/ Tick

SpecRenew == InitWatchService /\ [][NextRenew]_vars

\* ---- downloads, one at a time --------------------------------------------------

\* the steps of a download that is under way
DownloadRuns ==
    \/ DownloadMetaOk("d1")
    \/ DownloadRequestFail("d1")
    \/ DownloadStart("d1")
    \/ \E n \in ChunkSizes : StreamChunk("d1", n)
    \/ StreamEnd("d1")
    \/ \E e \in StreamFailures : StreamRaises("d1", e)
    \/ ConsumerAborts("d1")
    \/ DownloadFinish("d1")

NextDownload == DownloadFileCall("d1") \/ DownloadRuns

\* whether another download is ever requested is up to the callers; a download
\* that is under way is not suspended forever
SpecDownload == InitSyncChanges /\ [][NextDownload]_vars /\ WF_vars(DownloadRuns)

\* ---- claims: token provider -------------------------------------------------

\* C1: on one provider, a get_token call that returns while the token the first
\* call of the window obtained is still more than 60 s before its expiry, with
\* no invalidate since, returns that same token and performs no exchange.
C1_CachedTokenReused ==
    \A c \in Callers :
        (pc[c] = "gt_ret" /\ in_window[c] # 0)
            => (token[c].token = in_window[c] /\ ~exchanged[c])

C1_Witness ==
    \E c \in Callers :
        pc[c] = "gt_ret" /\ in_window[c] # 0 /\ token[c].token = in_window[c] /\ issued = 1

FinishedGetToken(c) == pc[c] \in {"gt_ret", "gt_raise"}

SameTarget(c, d) == c # d /\ provider[c] = provider[d] /\ account[c] = account[d]

ExchangeInFlight(c) == pc[c] = "gt_post"

\* at most one refresh-token exchange is in flight per provider
OneExchangeInFlight ==
    \A c, d \in Callers :
        (c # d /\ provider[c] = provider[d]) => ~(ExchangeInFlight(c) /\ ExchangeInFlight(d))

\* C4 as claimed: at most one exchange is in flight per provider, and callers that
\* start with an empty cache for the same account (a refresh token being configured
\* and no invalidate running meanwhile) cause exactly one exchange in total.
C4_ExactlyOneExchange ==
    /\ OneExchangeInFlight
    /\ \A c, d \in Callers :
          ( /\ SameTarget(c, d)
            /\ ~settings.service_account
            /\ settings.refresh_token # None
            /\ started_empty[c] /\ started_empty[d]
            /\ ~disturbed[c] /\ ~disturbed[d]
            /\ FinishedGetToken(c) /\ FinishedGetToken(d) )
          => Cardinality({x \in {c, d} : exchanged[x]}) = 1

\* C4 amended: at most one exchange is in flight per provider; callers that start
\* with an empty cache for the same account and return tokens that are still valid,
\* with no invalidate since they began, return the same token and at most one of
\* them exchanged.
C4_OneExchangeWhileValid ==
    /\ OneExchangeInFlight
    /\ \A c, d \in Callers :
          ( /\ SameTarget(c, d)
            /\ started_empty[c] /\ started_empty[d]
            /\ ~disturbed[c] /\ ~disturbed[d]
            /\ pc[c] = "gt_ret" /\ pc[d] = "gt_ret"
            /\ StillValid(token[c], now) /\ StillValid(token[d], now) )
          => /\ token[c].token = token[d].token
             /\ ~(exchanged[c] /\ exchanged[d])

C4_Witness ==
    \E c, d \in Callers :
        /\ SameTarget(c, d)
        /\ ~settings.service_account
        /\ started_empty[c] /\ started_empty[d]
        /\ pc[c] = "gt_ret" /\ pc[d] = "gt_ret"
        /\ exchanged[c] /\ ~exchanged[d]
        /\ token[c].token = token[d].token

\* C5: two callers served at once that need a token for the same account never
\* have their refresh-token exchanges in flight at the same time.
C5_ExchangesNeverOverlap ==
    \A c, d \in Callers :
        (c # d /\ account[c] = account[d]) => ~(ExchangeInFlight(c) /\ ExchangeInFlight(d))

\* ---- claims: authenticated request -------------------------------------------

\* C2: the first get_token call begun after a 401 was received for the account
\* performs a fresh exchange and does not return the token the 401 was received for.
C2_FreshTokenAfter401 ==
    \A c \in Callers :
        (pc[c] = "gt_ret" /\ after_reject[c] # 0)
            => (exchanged[c] /\ token[c].token # after_reject[c])

\* C3: the attempt that follows a 401 carries a bearer token other than the one
\* the rejected attempt carried.
C3_RetryCarriesFreshToken ==
    \A c \in Callers :
        (pc[c] = "rq_send" /\ rejected_bearer[c] # 0) => bearer[c] # rejected_bearer[c]

\* C6: a request whose every attempt received 503 ends after exactly 5 attempts
\* by raising a Drive API error whose status code is 503.
C6_ExhaustionRaisesFatal503 ==
    \A c \in Callers :
        (pc[c] \in {"rq_ret", "rq_raise"} /\ only503[c])
            => /\ pc[c] = "rq_raise"
               /\ attempt[c] = MaxAttempts
               /\ error[c] = Error("DriveAPIError", 503)

FatalStatus(s) == s >= 400 /\ s < 500 /\ s # 401 /\ s # 429

\* C7: an attempt that receives a 4xx other than 401 and 429 ends the request:
\* no retry, no invalidation, and the caller gets a non-retriable error carrying
\* that status code.
C7_FatalClientErrorCarriesStatus ==
    \A c \in Callers :
        (op[c] = "request" /\ FatalStatus(status_code[c]))
            => /\ pc[c] = "rq_raise"
               /\ ~invalidated[c]
               /\ error[c] = Error("DriveAPIError", status_code[c])

RetriableStatus(s) == s = 401 \/ s = 429 \/ s >= 500

\* C8: a request returns exactly when an attempt received a 2xx, and then makes
\* no further attempt; a request that ended on a retriable status made all 5
\* attempts, so every retriable status before the fifth is followed by an attempt.
C8_RetriedUntilSuccess ==
    \A c \in Callers :
        /\ attempt[c] <= MaxAttempts
        /\ (pc[c] = "rq_ret") <=> (op[c] = "request" /\ status_code[c] >= 200 /\ status_code[c] < 300)
        /\ pc[c] = "rq_ret" => error[c] = NoError
        /\ (pc[c] = "rq_raise" /\ RetriableStatus(status_code[c])) => attempt[c] = MaxAttempts
        /\ pc[c] = "rq_sleep" => (attempt[c] < MaxAttempts /\ RetriableStatus(status_code[c]))

C8_Witness ==
    \E c \in Callers :
        pc[c] = "rq_ret" /\ attempt[c] = 3 /\ status_code[c] = 200

\* ---- claims: change sync ------------------------------------------------------

\* C9: when sync_changes fails, the stored checkpoint of its (account, resource) is
\* the row that was stored when the call began (existence, cursor, last-synced
\* time), and a fetch is always sent with the cursor that is stored.
C9_FailedSyncKeepsCheckpoint ==
    \A s \in Syncers :
        /\ (sync_pc[s] = "sc_raise" /\ ~interfered[s])
              => GetCheckpoint(resource[s]) = before[s]
        /\ (sync_pc[s] = "sc_list" /\ ~interfered[s])
              => page_token[s] = GetCheckpoint(resource[s]).cursor

C9_Witness ==
    \E s \in Syncers :
        /\ sync_pc[s] = "sc_raise"
        /\ ~interfered[s]
        /\ before[s].cursor = "cursor-2"
        /\ before[s].last_synced_at = Just(0)
        /\ now > 0
        /\ list_requests[s] = 1

\* no row, or a row whose cursor is null or empty
Uninitialised(cp) == ~cp.present \/ cp.cursor = None \/ cp.cursor = ""

\* C10: a sync_changes call begun while the resource has no checkpoint or no cursor
\* requests the start token once and never a page of changes; when it returns, the
\* token is the stored cursor and the result is changes = [], cursor = the token,
\* initialised = true, has_more = false, after any number of failed attempts; a call
\* begun while a cursor is stored never returns initialised = true.
C10_InitialisesOnce ==
    \A s \in Syncers :
        /\ (sync_pc[s] # "idle" /\ Uninitialised(before[s]))
              => (start_requests[s] = 1 /\ list_requests[s] = 0)
        /\ (sync_pc[s] = "sc_ret" /\ Uninitialised(before[s]))
              => /\ result[s].changes = <<>>
                 /\ result[s].initialised
                 /\ ~result[s].has_more
                 /\ result[s].cursor \in ServerTokens
                 /\ ~interfered[s] => GetCheckpoint(resource[s]).cursor = result[s].cursor
        /\ (sync_pc[s] = "sc_ret" /\ ~Uninitialised(before[s]))
              => (~result[s].initialised /\ start_requests[s] = 0)

C10_Witness ==
    \E s \in Syncers :
        /\ sync_pc[s] = "sc_ret"
        /\ before[s].present
        /\ before[s].cursor = None
        /\ failures[s] = MaxFailures
        /\ result[s].initialised
        /\ GetCheckpoint(resource[s]).cursor = result[s].cursor

\* C11: a sync_changes call begun with a stored cursor that returns has fetched one
\* page with that cursor and no start token; its cursor is the page's new-start
\* token if present, otherwise its next-page token (the stored cursor when the
\* page carries neither); the cursor and a timestamp are stored whatever the
\* changes list holds; initialised is false and has_more says whether the page
\* carried a next-page token.
C11_SteadyStateAdvance ==
    \A s \in Syncers :
        (sync_pc[s] = "sc_ret" /\ ~Uninitialised(before[s]))
            => /\ list_requests[s] = 1
               /\ start_requests[s] = 0
               /\ page_token[s] = before[s].cursor
               /\ payload[s].newStartPageToken # None
                     => result[s].cursor = payload[s].newStartPageToken
               /\ (payload[s].newStartPageToken = None /\ payload[s].nextPageToken # None)
                     => result[s].cursor = payload[s].nextPageToken
               /\ (payload[s].newStartPageToken = None /\ payload[s].nextPageToken = None)
                     => result[s].cursor = before[s].cursor
               /\ result[s].changes = payload[s].changes
               /\ ~result[s].initialised
               /\ result[s].has_more = (payload[s].nextPageToken # None)
               /\ ~interfered[s]
                     => /\ GetCheckpoint(resource[s]).cursor = result[s].cursor
                        /\ GetCheckpoint(resource[s]).last_synced_at # Nothing

C11_Witness ==
    \E s \in Syncers :
        /\ sync_pc[s] = "sc_ret"
        /\ before[s].cursor = "start-token"
        /\ payload[s] = [changes |-> <<>>, newStartPageToken |-> "cursor-2",
                         nextPageToken |-> "start-token"]
        /\ result[s].cursor = "cursor-2"
        /\ result[s].has_more
        /\ GetCheckpoint(resource[s]).cursor = "cursor-2"
        /\ GetCheckpoint(resource[s]).last_synced_at = Just(now)

\* C12: whenever a sync_changes call returns, the cursor it returns is the cursor
\* stored for its resource at that moment, and whenever a call sends a fetch, the
\* page token it sends is the cursor stored at that moment; a call that returns
\* initialised has fetched no page.
C12_CursorChain ==
    [][ \A s \in Syncers :
          /\ (sync_pc[s] # "sc_ret" /\ sync_pc'[s] = "sc_ret")
                => /\ checkpoints'[DefaultAccount][resource'[s]].cursor = result'[s].cursor
                   /\ result'[s].initialised => list_requests'[s] = 0
          /\ (sync_pc[s] # "sc_list" /\ sync_pc'[s] = "sc_list")
                => page_token'[s] = checkpoints[DefaultAccount][resource'[s]].cursor ]_vars

C12_Witness ==
    \E s \in Syncers :
        /\ sync_pc[s] = "sc_ret"
        /\ before[s].cursor = "start-token"
        /\ page_token[s] = "start-token"
        /\ before[s].last_synced_at # Nothing
        /\ result[s].cursor = "cursor-2"
        /\ ~interfered[s]
        /\ GetCheckpoint(resource[s]).cursor = "cursor-2"

\* C13: the cursor of every stored sync checkpoint is null or a non-empty token
\* issued by the server, whatever sync_changes calls and checkpoint updates
\* (drive.update_checkpoint included) have run.
C13_CursorNullOrServerToken ==
    \A a \in Accounts, r \in Resources :
        checkpoints[a][r].present
            => (checkpoints[a][r].cursor = None \/ checkpoints[a][r].cursor \in ServerTokens)

\* ---- claims: watch channels ---------------------------------------------------

\* the watch call o of w has ended
WatchDone(w, o) == call[w].op = o /\ wpc[w] \in {"ret", "raise"}

\* the channel has a locally stored secret
HasSecret(record) == record.present /\ record.token # None /\ record.token # ""

\* C14: ensure_valid_channel on a channel with a stored secret returns exactly when
\* the presented token equals the secret and raises PermissionError for any other
\* value, the empty string and null included; on a channel id without a row it
\* raises PermissionError.
C14_OnlyTheSecretValidates ==
    \A w \in Workers :
        WatchDone(w, "ensure_valid")
            => LET record == channels[call[w].channel_id]
               IN  /\ HasSecret(record)
                      => /\ (wpc[w] = "ret") <=> (call[w].token = record.token)
                         /\ (wpc[w] = "raise") => (call[w].error = "PermissionError")
                   /\ ~record.present
                      => (wpc[w] = "raise" /\ call[w].error = "PermissionError")

C14_Witness ==
    \E w \in Workers :
        /\ WatchDone(w, "ensure_valid")
        /\ HasSecret(channels[call[w].channel_id])
        /\ call[w].token = ""
        /\ wpc[w] = "raise"
        /\ call[w].error = "PermissionError"

\* C15: on a channel whose row upsert_channel created, ensure_valid_channel returns
\* when given the row's own token and raises PermissionError when given any other.
C15_UpsertedChannelRejectsOtherTokens ==
    \A w \in Workers :
        ( /\ WatchDone(w, "ensure_valid")
          /\ call[w].channel_id \in upserted
          /\ channels[call[w].channel_id].present )
            => LET record == channels[call[w].channel_id]
               IN  /\ (call[w].token = record.token) => (wpc[w] = "ret")
                   /\ (call[w].token # record.token)
                         => (wpc[w] = "raise" /\ call[w].error = "PermissionError")

\* C16: a notification naming a channel id without a row ends with a row for that
\* channel id in the table and is accepted.
C16_UnknownChannelIsCreated ==
    \A w \in Workers :
        ( /\ WatchDone(w, "webhook")
          /\ call[w].channel_id \in ChannelIds
          /\ ~wtable[w][call[w].channel_id].present )
            => (wpc[w] = "ret" /\ channels[call[w].channel_id].present)

\* C17: a notification naming a channel with a stored secret and presenting another
\* token never reaches the upsert: it is answered 403 and the channel's row is what
\* it was when the notification arrived.
C17_RejectedDeliveryChangesNothing ==
    \A w \in Workers :
        ( /\ call[w].op = "webhook"
          /\ call[w].channel_id \in ChannelIds
          /\ HasSecret(wtable[w][call[w].channel_id])
          /\ call[w].token # wtable[w][call[w].channel_id].token )
            => /\ wpc[w] = "raise"
               /\ call[w].error = "HTTP 403"
               /\ channels[call[w].channel_id] = wtable[w][call[w].channel_id]

C17_Witness ==
    \E w \in Workers :
        /\ call[w].op = "webhook"
        /\ call[w].channel_id \in ChannelIds
        /\ HasSecret(wtable[w][call[w].channel_id])
        /\ call[w].token = "secret-b"
        /\ wtable[w][call[w].channel_id].token = "secret-a"
        /\ call[w].data.expiration_header.form = "date"
        /\ wpc[w] = "raise"

\* the channel is due as claimed: its expiration is set and at most now + threshold
DueAsClaimed(record, at, threshold) ==
    record.present /\ record.expiration # Nothing /\ The(record.expiration) <= at + threshold

\* C18: when renew_channels(threshold) returns, exactly the channels whose expiration
\* was set and at most now + threshold are gone, every other channel is as it was,
\* and the result names one newly registered channel per channel that was due.
C18_RenewsExactlyTheDue ==
    \A w \in Workers :
        (call[w].op = "renew" /\ wpc[w] = "ret")
            => LET c == call[w]
                   was == wtable[w]
                   due == {i \in ChannelIds : DueAsClaimed(was[i], c.now, c.threshold)}
                   new == {c.result[k] : k \in 1 .. Len(c.result)}
               IN  /\ \A i \in due : ~channels[i].present
                   /\ \A i \in ChannelIds \ due : was[i].present => channels[i] = was[i]
                   /\ Len(c.result) = Cardinality(due)
                   /\ Cardinality(new) = Len(c.result)
                   /\ \A i \in new : ~was[i].present /\ channels[i].present
                   /\ \A i \in ChannelIds \ new : ~was[i].present => ~channels[i].present

C18_Witness ==
    \E w \in Workers :
        /\ call[w].op = "renew"
        /\ wpc[w] = "ret"
        /\ call[w].now = ExpirySkew
        /\ call[w].threshold = ExpirySkew
        /\ Len(call[w].result) = 2
        /\ \E i, j, k \in ChannelIds :
              /\ wtable[w][i].present /\ wtable[w][i].expiration = Just(0)
              /\ wtable[w][j].present /\ wtable[w][j].expiration = Just(2 * ExpirySkew)
              /\ wtable[w][k].present /\ wtable[w][k].expiration = Just(3 * ExpirySkew)
              /\ ~channels[i].present /\ ~channels[j].present
              /\ channels[k] = wtable[w][k]

\* C19: when renew_channels raises after renewing some channels, those channels stay
\* renewed and the caller receives the ids of the channels renewed so far.
C19_CallerSeesRenewedSoFar ==
    \A w \in Workers :
        (call[w].op = "renew" /\ wpc[w] = "raise" /\ Len(call[w].renewed) > 0)
            => /\ \A k \in 1 .. Len(call[w].renewed) : channels[call[w].renewed[k]].present
               /\ call[w].returned
               /\ call[w].result = call[w].renewed

\* C20: delete_watch leaves the table as it was until the remote stop has succeeded;
\* when the stop fails the error reaches the caller and the table is still as it
\* was; when it succeeds the channel's row is gone and no other row has changed, so
\* that without a row the call returns with the table unchanged.
C20_DeleteOnlyAfterRemoteStop ==
    \A w \in Workers :
        call[w].op = "delete"
            => /\ (wpc[w] = "dw_stop") => (channels = wtable[w])
               /\ (wpc[w] = "raise")
                     => (channels = wtable[w] /\ call[w].error \in {e.kind : e \in DriveFailures})
               /\ (wpc[w] = "ret")
                     => /\ ~channels[call[w].channel_id].present
                        /\ \A i \in ChannelIds \ {call[w].channel_id} : channels[i] = wtable[w][i]
                        /\ ~wtable[w][call[w].channel_id].present => channels = wtable[w]

C20_Witness ==
    \E w \in Workers :
        /\ call[w].op = "delete"
        /\ wpc[w] = "raise"
        /\ wtable[w][call[w].channel_id].present
        /\ channels[call[w].channel_id] = wtable[w][call[w].channel_id]

\* ---- claims: registering a watch ------------------------------------------------

\* C21: register_changes_watch called with no webhook callback address configured
\* fails at once with a configuration error: it has issued no Drive request (so no
\* token was acquired for one) and the stored channel records are those it found.
C21_NoWebhookUrlFailsAtOnce ==
    \A w \in Workers :
        (call[w].op = "register" /\ ~webhook_url)
            => /\ wpc[w] = "raise"
               /\ call[w].error = "ValueError"
               /\ call[w].sent = {}
               /\ channels = wtable[w]

C21_Witness ==
    \E w \in Workers :
        /\ call[w].op = "register" /\ ~webhook_url
        /\ wpc[w] = "raise"
        /\ \E i \in ChannelIds : channels[i].present

\* the row the claim expects after a successful registration
RowAsClaimed(c) ==
    [present |-> TRUE, resource_id |-> c.response.resourceId,
     resource_uri |-> c.response.resourceUri,
     expiration |-> IF c.response.expiration = 0 THEN Nothing
                    ELSE Just(c.response.expiration \div 1000),
     token |-> c.token, kind |-> "changes"]

\* C22: register_changes_watch adds a channel record only after the remote watch
\* request succeeded: while a Drive request is pending, and when one has failed
\* (the failure reaches the caller), the stored records are those the call found;
\* on success exactly one record is added, under a new id, with the generated
\* secret and the resource id, URI and expiration Drive answered (none if absent).
C22_RecordOnlyAfterRemoteSuccess ==
    \A w \in Workers :
        call[w].op = "register" =>
            /\ wpc[w] \in {"rg_start", "rg_watch"} => channels = wtable[w]
            /\ wpc[w] = "raise" =>
                  /\ channels = wtable[w]
                  /\ call[w].error \in {"ValueError"} \cup {e.kind : e \in DriveFailures}
            /\ wpc[w] = "ret" =>
                  LET id == call[w].result[1]
                  IN  /\ ~wtable[w][id].present
                      /\ HasSecret(channels[id])
                      /\ channels = [wtable[w] EXCEPT ![id] = RowAsClaimed(call[w])]

C22_Witness ==
    \E w \in Workers :
        /\ call[w].op = "register"
        /\ wpc[w] = "raise"
        /\ "start_changes_watch" \in call[w].sent
        /\ \E i \in ChannelIds : channels[i].present

\* ---- claims: get_token outcomes ---------------------------------------------------

\* neither the store nor the configuration holds a refresh token for account a
NoRefreshTokenAnywhere(a) ==
    /\ settings.refresh_token = None
    /\ ~repository \/ ~credentials[a].present \/ credentials[a].refresh_token = None

\* an access token more than 60 s before its expiry is cached or stored
ValidTokenAtHand(p, a) ==
    \/ StillValid(tokens[p][a], now)
    \/ /\ repository /\ credentials[a].present /\ credentials[a].access_token # Nothing
       /\ (credentials[a].expires_at = Nothing \/ now + 60 < The(credentials[a].expires_at))

\* C23: in refresh-token mode, with no refresh token in the store or the
\* configuration and no valid access token cached or stored, the step of get_token
\* that decides the call raises an error of status 401; the call posts nothing to
\* the token endpoint and changes neither the cache nor the store.
C23_NoRefreshTokenRaises401 ==
    [][ \A c \in Callers :
          ( /\ pc[c] \in {"gt_wait", "gt_repo"} /\ pc'[c] # pc[c]
            /\ ~settings.service_account
            /\ NoRefreshTokenAnywhere(account[c])
            /\ ~ValidTokenAtHand(provider[c], account[c]) )
          => /\ \/ pc[c] = "gt_wait" /\ repository /\ pc'[c] = "gt_repo"
                \/ pc'[c] = "gt_raise" /\ error'[c] = Error("DriveAPIError", 401)
             /\ ~exchanged'[c]
             /\ tokens' = tokens
             /\ credentials' = credentials
             /\ issued' = issued ]_vars

C23_Witness ==
    \E c \in Callers :
        /\ pc[c] = "gt_raise" /\ error[c] = Error("DriveAPIError", 401)
        /\ repository /\ ~settings.service_account
        /\ NoRefreshTokenAnywhere(account[c])
        /\ lock[provider[c]] = None

\* the token endpoint answered the POST (with a status that is not 2xx)
EndpointRejected(e) == e.kind # "TransportError"

\* C24: when the token endpoint rejects the exchange with a non-2xx status,
\* get_token raises an error carrying that status and the parsed error payload,
\* releases the lock and leaves the token cache and the stored credential as they
\* were.
C24_RejectedExchangeCarriesStatus ==
    [][ \A c \in Callers :
          (pc[c] = "gt_post" /\ pc'[c] = "gt_raise" /\ EndpointRejected(error'[c]))
          => /\ error'[c].kind = "DriveAPIError"
             /\ error'[c].status_code >= 400
             /\ lock'[provider[c]] = None
             /\ tokens' = tokens
             /\ credentials' = credentials ]_vars

\* C25: invalidate(account) empties that account's entry of the provider's cache
\* and nothing else: the entries of the other accounts and of other providers and
\* every stored credential are as before, and a second invalidate changes nothing.
C25_InvalidateTouchesOneEntry ==
    [][ \A p \in Providers, a \in Accounts :
          InvalidateCall(p, a)
          => /\ tokens'[p][a] = NoEntry
             /\ \A b \in Accounts \ {a} : tokens'[p][b] = tokens[p][b]
             /\ \A q \in Providers \ {p} : tokens'[q] = tokens[q]
             /\ credentials' = credentials
             /\ Invalidate(tokens', p, a) = tokens' ]_vars

C25_Witness ==
    /\ tokens["p1"]["default"] = NoEntry
    /\ tokens["p1"]["other"].token # 0
    /\ credentials["default"].access_token # Nothing
    /\ credentials["default"].refresh_token # None

\* C26: with a credential store attached, a successful refresh-token exchange
\* hands the store the refresh token the endpoint returned, or the one that was
\* used when none was returned; once the upsert has committed, the stored
\* credential holds the new access token and that refresh token; and no step of
\* any get_token call erases a stored refresh token.
C26_RefreshTokenPersisted ==
    [][ \A c \in Callers :
          /\ \A e \in ExpiresInChoices, r \in {None, "rt_rotated"} :
                (GetTokenPostOk(c, e, r) /\ repository)
                => upsert_args'[c].refresh_token = (IF r # None THEN r ELSE refresh_token[c])
          /\ (pc[c] = "gt_persist" /\ pc'[c] = "gt_ret" /\ ~settings.service_account)
                => /\ credentials'[account[c]].access_token = Just(token'[c].token)
                   /\ credentials'[account[c]].refresh_token = upsert_args[c].refresh_token
                   /\ credentials'[account[c]].refresh_token # None
          /\ \A a \in Accounts :
                credentials[a].refresh_token # None => credentials'[a].refresh_token # None
      ]_vars

C26_Witness ==
    \E c \in Callers :
        /\ pc[c] = "gt_ret" /\ exchanged[c] /\ ~settings.service_account
        /\ credentials[account[c]].refresh_token = "rt_rotated"
        /\ credentials[account[c]].access_token = Just(token[c].token)

\* ---- claims: download audit -------------------------------------------------------

AuditStarted(i) == i <= Len(audits) /\ audits[i].status = "started"

\* C27: every download audit record that is created eventually leaves the
\* 'started' state.
C27_AuditEventuallyLeavesStarted ==
    \A i \in 1 .. MaxDownloads : AuditStarted(i) ~> ~AuditStarted(i)

\* ---- claims: observability of authenticated requests ----------------------------

\* the _request call of caller c has been left, by a return or by an exception
RequestLeft(c) == op[c] = "request" /\ pc[c] \in {"gt_raise", "rq_ret", "rq_raise"}

\* C28: every call of _request has emitted an observability record when it is
\* left, whichever way it is left, and the record carries the status code of the
\* last response received.
C28_RecordOnEveryExit ==
    \A c \in Callers :
        RequestLeft(c)
            => /\ Len(observed[c]) >= 1
               /\ observed[c][Len(observed[c])].status_code = status_code[c]

\* C29: each HTTP attempt of an authenticated request emits its own observability
\* record: after n attempts, n records have been emitted.
C29_OneRecordPerAttempt ==
    \A c \in Callers :
        (op[c] = "request" /\ pc[c] \in {"rq_sleep", "rq_ret", "rq_raise"})
            => Len(observed[c]) = attempt[c]

\* ---- claims: the token lock and Drive calls ------------------------------------

InsideGetToken(c) == pc[c] \in {"gt_repo", "gt_post", "gt_mint", "gt_persist"}

DriveCallInFlight(c) == pc[c] \in {"rq_send", "rq_sleep"}

\* C30: the token lock is held only by a caller inside get_token; a caller whose
\* Drive attempt is in flight or that waits for a backoff does not hold it, so the
\* lock is free or held by a caller that is itself inside get_token.
C30_LockOnlyInsideGetToken ==
    /\ \A p \in Providers : lock[p] # None => InsideGetToken(lock[p])
    /\ \A c \in Callers : DriveCallInFlight(c) => lock[provider[c]] # c

C30_Witness ==
    \E c, d \in Callers :
        /\ SameTarget(c, d)
        /\ pc[c] = "rq_sleep"
        /\ pc[d] = "gt_post" /\ lock[provider[d]] = d

\* C31: there is at most one credential row per account id; a committed
\* upsert_credentials (one called directly or the one get_token awaits) leaves a row
\* that get_credentials returns with the access token just written and with the
\* refresh token just written, or, when none was given, the one stored before.
WrittenAsClaimed(before_row, after_row, args) ==
    /\ after_row.present
    /\ after_row.access_token = Just(args.access_token)
    /\ after_row.refresh_token = IF args.refresh_token # None THEN args.refresh_token
                                 ELSE before_row.refresh_token

C31_OneRowPerAccount ==
    /\ [](\A a \in Accounts : credentials[a].rows <= 1 /\ (credentials[a].present <=> credentials[a].rows = 1))
    /\ [][/\ \A k \in Sessions :
               (/\ repo_pc[k] = "repo_commit"
                /\ repo_call[k].op = "upsert_credentials"
                /\ repo_pc'[k] = "repo_ret")
               => WrittenAsClaimed(credentials[repo_call[k].account_id],
                                   GetCredentials(credentials', repo_call[k].account_id),
                                   repo_call[k].args)
           /\ \A c \in Callers :
               (pc[c] = "gt_persist" /\ pc'[c] # "gt_persist")
               => WrittenAsClaimed(credentials[account[c]],
                                   GetCredentials(credentials', account[c]),
                                   upsert_args[c])]_vars

\* an upsert without a refresh token has kept the stored one while another
\* session's insert for an account is refused
C31_Witness ==
    \E k, j \in Sessions :
        /\ repo_pc[k] = "repo_ret"
        /\ repo_call[k].op = "upsert_credentials"
        /\ repo_call[k].args.refresh_token = None
        /\ repo_call[k].record.refresh_token = "rt_stored"
        /\ repo_call[k].record.rows = 1
        /\ repo_pc[j] = "repo_raise"

\* C32: a committed upsert_checkpoint(resource, cursor) leaves, for the service's
\* account and that resource, one row whose cursor is the cursor written (replaced,
\* not merged with the old one), which get_checkpoint returns; no (account, resource)
\* ever has more than one row or loses its row, and the rows of other resources and
\* accounts are unchanged by the upsert.
C32_CheckpointRoundTrip ==
    /\ [](\A a \in Accounts, r \in Resources :
             checkpoints[a][r].rows <= 1 /\ (checkpoints[a][r].present <=> checkpoints[a][r].rows = 1))
    /\ [][/\ \A a \in Accounts, r \in Resources : checkpoints'[a][r].rows >= checkpoints[a][r].rows
           /\ \A k \in Sessions :
               (/\ repo_pc[k] = "repo_commit"
                /\ repo_call[k].op = "upsert_checkpoint"
                /\ repo_pc'[k] = "repo_ret")
               => /\ checkpoints'[repo_call[k].account_id][repo_call[k].resource].rows = 1
                  /\ checkpoints'[repo_call[k].account_id][repo_call[k].resource].cursor
                         = repo_call[k].cursor
                  /\ \A b \in Accounts, q \in Resources :
                         <<b, q>> # <<repo_call[k].account_id, repo_call[k].resource>>
                         => checkpoints'[b][q] = checkpoints[b][q]]_vars

\* an upsert with no cursor has replaced a stored cursor while another account and
\* another resource hold rows of their own
C32_Witness ==
    \E k \in Sessions :
        /\ repo_pc[k] = "repo_ret"
        /\ repo_call[k].op = "upsert_checkpoint"
        /\ repo_call[k].cursor = None
        /\ repo_call[k].account_id = DefaultAccount
        /\ repo_call[k].resource = "files"
        /\ checkpoints[DefaultAccount]["files"].present
        /\ checkpoints[DefaultAccount]["files"].cursor = None
        /\ checkpoints[DefaultAccount]["other"].cursor = "cursor-2"
        /\ checkpoints["other"]["files"].cursor = "start-token"

\* ---- claims: pruning the download audit ------------------------------------------

\* C33: when a download was recorded as started and then as completed, a
\* prune_downloads call whose cutoff is one second before the current time deletes
\* that record, and returns 1 when it is the only completed record.
Completed(table) == {i \in DOMAIN table : table[i].present /\ table[i].status = "completed"}

C33_PruneDeletesCompleted ==
    [][\A k \in Sessions :
          (/\ repo_pc[k] = "repo_delete"
           /\ repo_call[k].op = "prune_downloads"
           /\ repo_call[k].older_than = now - 1
           /\ repo_pc'[k] = "repo_ret")
          => /\ \A i \in Completed(audits) : ~audits'[i].present
             /\ Cardinality(Completed(audits)) = 1 => repo_call'[k].deleted = 1]_vars

\* ---- claims: when get_token exchanges -----------------------------------------------

\* valid as the claim words it: no expiry, or an expiry more than 60 s ahead
ValidAsClaimed(expires_at, clock) == expires_at = Nothing \/ The(expires_at) - clock > 60

CacheHoldsValid(p, a) == tokens[p][a].token # 0 /\ ValidAsClaimed(tokens[p][a].expires_at, now)

StoreHoldsValid(a) ==
    /\ repository
    /\ credentials[a].present
    /\ credentials[a].access_token # Nothing
    /\ ValidAsClaimed(credentials[a].expires_at, now)

\* C34: in refresh-token mode, a get_token call that finds a valid token in the cache
\* returns it without reading the store and without an exchange; one that finds a
\* valid token in the store copies it into the cache and returns it without an
\* exchange; and a call goes to the token endpoint only when neither holds one.
C34_ExchangeOnlyWithoutValidToken ==
    [][~settings.service_account =>
       \A c \in Callers :
          LET p == provider[c]
              a == account[c]
          IN  /\ (pc[c] = "gt_wait" /\ pc'[c] # "gt_wait" /\ CacheHoldsValid(p, a))
                 => /\ pc'[c] \in {"gt_ret", "rq_send"}
                    /\ token'[c] = tokens[p][a]
                    /\ ~exchanged'[c]
              /\ (pc[c] = "gt_repo" /\ pc'[c] # "gt_repo" /\ StoreHoldsValid(a))
                 => /\ pc'[c] \in {"gt_ret", "rq_send"}
                    /\ The(credentials[a].access_token) = token'[c].token
                    /\ tokens'[p][a] = token'[c]
                    /\ ~exchanged'[c]
              /\ (pc[c] # "gt_post" /\ pc'[c] = "gt_post")
                 => ~CacheHoldsValid(p, a) /\ ~StoreHoldsValid(a)]_vars

\* a call that began with an empty cache has returned the stored token, now
\* cached, without an exchange
C34_Witness ==
    \E c \in Callers :
        /\ pc[c] = "gt_ret"
        /\ started_empty[c]
        /\ ~exchanged[c]
        /\ token[c].token # 0
        /\ tokens[provider[c]][account[c]] = token[c]
        /\ credentials[account[c]].access_token = Just(token[c].token)

\* ---- claims: what upsert_channel writes --------------------------------------------

\* upsert_channel ran to its end in the call of w, directly or from the webhook
UpsertChannelRan(w) ==
    \/ WatchDone(w, "upsert") /\ call[w].channel_id \in ChannelIds
    \/ WatchDone(w, "webhook") /\ wpc[w] = "ret"

\* the delivery carries an expiration header that is not a date
CarriesUnparseable(data) == data.expiration_header.form \in {"empty", "bad"}

\* C35 as stated: upsert_channel overwrites resource id and resource URI with the
\* delivered values; a delivery whose expiration header cannot be parsed succeeds and
\* leaves the expiration null; a delivery without the header leaves the stored
\* expiration unchanged.
C35_UpsertChannelAsStated ==
    \A w \in Workers :
        UpsertChannelRan(w)
        => LET data == call[w].data
               old == wtable[w][call[w].channel_id]
               new == channels[call[w].channel_id]
           IN  /\ wpc[w] = "ret"
               /\ new.resource_id = data.resourceId
               /\ new.resource_uri = data.resourceUri
               /\ CarriesUnparseable(data) => new.expiration = Nothing
               /\ data.expiration_header.form = "absent" => new.expiration = old.expiration

\* C35, amended: as stated, for a header that is not empty; a header sent with an
\* empty value is treated as a missing one and leaves the stored expiration unchanged.
C35_UpsertChannelOverwrites ==
    \A w \in Workers :
        UpsertChannelRan(w)
        => LET data == call[w].data
               old == wtable[w][call[w].channel_id]
               new == channels[call[w].channel_id]
           IN  /\ wpc[w] = "ret"
               /\ new.resource_id = data.resourceId
               /\ new.resource_uri = data.resourceUri
               /\ data.expiration_header.form = "bad" => new.expiration = Nothing
               /\ data.expiration_header.form \in {"absent", "empty"}
                     => new.expiration = old.expiration

\* a notification with an unparseable header was accepted for a channel that had an
\* expiration, and the expiration is null now
C35_Witness ==
    \E w \in Workers :
        /\ WatchDone(w, "webhook")
        /\ wpc[w] = "ret"
        /\ call[w].data.expiration_header = BadHeader
        /\ wtable[w][call[w].channel_id].expiration # Nothing
        /\ channels[call[w].channel_id].expiration = Nothing

\* ---- claims: concurrent sync_changes calls -----------------------------------------

\* C36: whenever a sync_changes call writes the cursor it computed from a page, the
\* cursor it fetched that page from is still the stored cursor of the resource.
C36_NoLostUpdate ==
    [][\A s \in Syncers :
          (sync_pc[s] = "sc_list" /\ sync_pc'[s] = "sc_ret")
          => GetCheckpoint(resource[s]).cursor = page_token[s]]_vars

\* ---- claims: the channel table across a renewal -------------------------------------

\* the channel ids with a row in a table
Recorded(table) == {i \in ChannelIds : table[i].present}

\* C37: in every state during or after a renew_channels call, the channels that were
\* recorded when the call began and are gone have been replaced one for one by newly
\* registered channels, so that the table never holds fewer channels than before.
C37_RenewalKeepsChannelCount ==
    \A w \in Workers :
        call[w].op = "renew"
        => LET gone == Recorded(wtable[w]) \ Recorded(channels)
               new == Recorded(channels) \ Recorded(wtable[w])
           IN  /\ Cardinality(new) = Cardinality(gone)
               /\ Cardinality(Recorded(channels)) >= Cardinality(Recorded(wtable[w]))

\* ---- claims: an initialised checkpoint stays initialised ----------------------------

\* the page carries neither a new-start token nor a next-page token
CarriesNoToken(page) == ~Truthy(page.newStartPageToken) /\ ~Truthy(page.nextPageToken)

\* C38: under sync_changes calls alone, a step taken while a resource's stored cursor
\* is non-empty leaves it non-empty, and a call that stores the outcome of a page with
\* neither token leaves the stored cursor what it was.
C38_CursorStaysInitialised ==
    [][/\ \A r \in Resources :
              ~Uninitialised(checkpoints[DefaultAccount][r])
              => ~Uninitialised(checkpoints'[DefaultAccount][r])
       /\ \A s \in Syncers :
              (sync_pc[s] = "sc_list" /\ sync_pc'[s] = "sc_ret" /\ CarriesNoToken(payload'[s]))
              => checkpoints'[DefaultAccount][resource[s]].cursor
                    = checkpoints[DefaultAccount][resource[s]].cursor]_vars

\* after a failed call, a call received a page with neither token and the cursor
\* stored before it is still the stored cursor
C38_Witness ==
    \E s \in Syncers :
        /\ sync_pc[s] = "sc_ret"
        /\ failures[s] > 0
        /\ ~result[s].initialised
        /\ CarriesNoToken(payload[s])
        /\ ~Uninitialised(before[s])
        /\ GetCheckpoint(resource[s]).cursor = before[s].cursor

\* ---- claims: who sets a channel's secret ---------------------------------------------

\* C39: a row that exists keeps its secret token for as long as it exists, whatever
\* upsert_channel writes to it; a row that appears with a secret token is the row a
\* register_changes_watch call adds, and a row upsert_channel creates has none.
C39_SecretSetOnlyByRegister ==
    [][\A i \in ChannelIds :
          /\ (channels[i].present /\ channels'[i].present)
                => channels'[i].token = channels[i].token
          /\ (~channels[i].present /\ channels'[i].present /\ channels'[i].token # None)
                => \E w \in Workers : wpc[w] = "rg_watch" /\ wpc'[w] # "rg_watch"
          /\ (~channels[i].present /\ channels'[i].present /\ i \in upserted')
                => channels'[i].token = None]_vars

\* a notification was upserted into a channel that keeps its secret, and
\* upsert_channel has created a row without one
C39_Witness ==
    \E w \in Workers :
        /\ WatchDone(w, "webhook")
        /\ wpc[w] = "ret"
        /\ HasSecret(channels[call[w].channel_id])
        /\ channels[call[w].channel_id].token = wtable[w][call[w].channel_id].token
        /\ channels[call[w].channel_id].resource_id # wtable[w][call[w].channel_id].resource_id
        /\ ForeignId \in upserted
        /\ channels[ForeignId].token = None

\* ---- claims: the drive catalog --------------------------------------------------------

\* C40: when a sync commits, an entry of the catalog is active if and only if its
\* drive id is among those the sync kept (My Drive and the non-empty ids of its
\* listing); no entry is ever deleted, no drive id ever has two entries, and a sync
\* whose listing fails leaves the catalog as it is.
C40_CatalogMirrorsListing ==
    /\ [](\A i \in DriveIds : catalog[i].rows <= 1 /\ (catalog[i].present <=> catalog[i].rows = 1))
    /\ [][/\ \A i \in DriveIds : catalog[i].present => catalog'[i].present
           /\ \A k \in Sessions :
                 /\ (dir_pc[k] = "ds_list" /\ dir_pc'[k] = "ds_raise") => catalog' = catalog
                 /\ (dir_pc[k] = "ds_commit" /\ dir_pc'[k] = "ds_ret")
                       => \A d \in DriveIds :
                             catalog'[d].present
                             => (catalog'[d].is_active
                                    <=> d \in SeenIds(dir_call[k].remote_drives))]_vars

====
